---- MODULE Spec2Model ----
(***************************************************************************)
(* anytls-go server core: the V2board traffic accountant (TrafficManager), *)
(* the credential directory (AuthManager), the server identity (myServer)  *)
(* and the connection admitter (handleTcpConnection).                      *)
(*                                                                         *)
(* Each subsystem has its own specification over the same variables:       *)
(*   SpecTraffic  Record() callers interleaved with the push() driver      *)
(*   SpecAuth     the refresh loop of the directory interleaved with       *)
(*                lookups and with myServer.authenticate                   *)
(*   SpecConn     one connection handler interleaved with the refresh loop *)
(* The variables of the subsystems a specification does not run keep their *)
(* initial values.                                                         *)
(***************************************************************************)
EXTENDS Integers, Sequences, FiniteSets, TLC

(***************************************************************************)
(* Bounds of the model.                                                    *)
(***************************************************************************)
\* the number of Record() calls of a run
MaxCalls == 2

\* the longest user list the panel returns
MaxListLen == 2

\* the logical streams the client opens on its connection

\* crypto/sha256.Size, the length of a fingerprint
Sha256Size == 32

\* the user ids of the run, the concurrent callers of Record()
UserIDs == {1, 2}
Callers == {"a", "b"}
\* int64 arguments of Record: each amount negative or positive, or both zero
Amounts == {-1, 1}
RecordInputs == {<<0, 0>>} \cup (Amounts \X Amounts)

(***************************************************************************)
(* TrafficManager state (src/v2board/auth.go, 314-335).                    *)
(*   objs      the heap of userTraffic objects; a counter pointer is an    *)
(*             index into it.  Each object carries the id it was created   *)
(*             for (bookkeeping only).                                     *)
(*   counters  map[int]*userTraffic                                        *)
(*   tmReaders holders of the read side of TrafficManager.mu across steps  *)
(***************************************************************************)
VARIABLES objs, counters, tmReaders

(***************************************************************************)
(* One Record() call per caller at a time: its arguments, its local        *)
(* variable counter and its position.                                      *)
(***************************************************************************)
VARIABLES recPc, recArgs, recCounter, calls

(***************************************************************************)
(* The push() driver: position, the ids the range loop has not visited,    *)
(* the id being visited, the local upload, the records slice, the index of *)
(* the restore loop.                                                       *)
(* TrafficManager.Start (src/v2board/auth.go, 370-379): tmPc is "start"    *)
(* until the ticker exists and "wait" from then on (the loop is inside     *)
(* push() while pushPc is not "idle"); pushTicked records that a value of  *)
(* ticker.C was taken.                                                     *)
(***************************************************************************)
VARIABLES pushPc, pushTodo, pushCur, pushUpload, records, restoreIdx, tmPc, pushTicked

(***************************************************************************)
(* History of the run, kept beside the program state:                      *)
(*   calledUp/Down    per id, the positive amounts Record() was called with*)
(*   acceptedUp/Down  per id, the amounts in batches the sink accepted     *)
(*   sampledUp/Down   per id, what the pending (sampled or rejected and    *)
(*                    not yet accepted) attempt owes: the totals before    *)
(*                    the flush                                            *)
(*   duringUp/Down    per id, the amounts added by Record() since the      *)
(*                    id's counter was last sampled                        *)
(*   lastOutcome      how the last push() ended                            *)
(***************************************************************************)
VARIABLES calledUp, calledDown, acceptedUp, acceptedDown,
          sampledUp, sampledDown, duringUp, duringDown, lastOutcome

progVars == <<objs, counters, tmReaders>>
recVars == <<recPc, recArgs, recCounter, calls>>
flushLoop == <<tmPc, pushTicked>>
pushVars == <<pushPc, pushTodo, pushCur, pushUpload, records, restoreIdx, flushLoop>>
calledVars == <<calledUp, calledDown>>
flushHist == <<acceptedUp, acceptedDown, sampledUp, sampledDown, lastOutcome>>
duringVars == <<duringUp, duringDown>>

trafficVars == <<progVars, recVars, pushVars, calledVars, flushHist, duringVars>>

(***************************************************************************)
(* AuthManager state (src/v2board/auth.go, 21-28) and its refresh loop.    *)
(*   usersByHash, usersById  the two maps of the published snapshot        *)
(*   amPc                    position of Start: before the first refresh,  *)
(*                           in refresh (waiting for GetUserList), waiting *)
(*                           for the next tick                             *)
(* History: the fetched list each published map was built from, the maps   *)
(* as they were when the running (or last) refresh() was called, and how   *)
(* the last refresh() returned, and whether Start has taken a tick from   *)
(* its ticker.                                                             *)
(***************************************************************************)
VARIABLES usersByHash, usersById, amPc,
          byHashFrom, byIdFrom, beforeRefresh, lastRefresh, ticked

(***************************************************************************)
(* User.SpeedLimit is a *uint32 (src/v2board/auth.go, 228-235).            *)
(*   limitCells  the uint32 cells the entries of the snapshot point to,    *)
(*               one per user of the published list: <<n>>, or <<>> for a  *)
(*               nil pointer                                               *)
(*   held        the *User a caller got from GetUserByID: its ID, its      *)
(*               UUID, and its SpeedLimit: ptr is 0 for nil, the index of  *)
(*               the cell of the snapshot it points to, or -1 when it      *)
(*               points to a cell no snapshot entry points to any more,    *)
(*               whose value is own                                        *)
(***************************************************************************)
VARIABLES limitCells, held

(***************************************************************************)
(* myServer (src/cmd/server/myserver.go, 11-20): the mode it was built in  *)
(* and the static sha256(password); and the last lookup made from outside  *)
(* (CheckAuth, GetUserByID or authenticate) with its result.               *)
(***************************************************************************)
VARIABLES srvMode, passwordSha256, lookup

(***************************************************************************)
(* One run of handleTcpConnection (src/unnamed/part_000, 326-402).         *)
(*   connPc     position of the handler                                    *)
(*   burst      the bytes of the first read, kept in the buffer b          *)
(*   bufOff     how many bytes of b have been read off its front           *)
(*   hashBytes  passwordHashBytes                                          *)
(*   userID     the id captured by the stream callback (line 371)          *)
(*   sessStarted  NewServerSession/Run was reached                         *)
(*   sPc, sDest, sCount  per stream: position of the callback, the         *)
(*              destination ReadAddrPort gave (its text as labels, <<>>    *)
(*              before), the (upload, download) the relay returned         *)
(* History: how the admission check answered and the ids the published     *)
(* list gave the fingerprint at that moment, the most bytes the admitter   *)
(* has taken off b, whether anything was written back to the peer, how the *)
(* handler ended, and the id each stream reported its traffic under.       *)
(***************************************************************************)
VARIABLES connPc, burst, bufOff, hashBytes, userID, sessStarted, sPc, sDest, sCount,
          authOk, admitID, admitIds, parsed, wroteBack, outcome, reportedAs

\* the TLS connection c of the handler: "open" or "closed"
VARIABLES tlsConn

(***************************************************************************)
(* One call of proxyOutboundTCP or proxyOutboundUoT with its               *)
(* copyBidirectional (src/cmd/server/outbound_tcp.go, 18-96).              *)
(*   rPc        position of the call                                       *)
(*   remoteIsTCP  whether the outbound conn is a *net.TCPConn              *)
(*   cpPc       per direction, the position of the copy goroutine          *)
(*   copyN      per direction, the bytes io.Copy has written so far        *)
(*   ret        the named results upload and download                      *)
(*   done       the number of values in the channel done                   *)
(*   recvd      how many values the caller has taken from done             *)
(*   clientSt, remoteSt  the two ends: open, writeClosed, closed           *)
(*   hsReport   what was signalled on the inbound stream                   *)
(* History: which direction finished first, and the directions whose       *)
(* source was closed under them while they were still copying.             *)
(***************************************************************************)
VARIABLES rPc, remoteIsTCP, cpPc, copyN, ret, done, recvd, clientSt, remoteSt,
          hsReport, firstDone, cutOff

relayVars == <<rPc, remoteIsTCP, cpPc, copyN, ret, done, recvd, clientSt, remoteSt,
               hsReport, firstDone, cutOff>>

(***************************************************************************)
(* The process: the accept loop of main (src/unnamed/part_000, 554-561),   *)
(* the goroutine of handleTcpConnection for each accepted connection and   *)
(* the callbacks the session runs for its streams.                         *)
(*   procSt   "running", or "exited" once the process has ended            *)
(*   taskSt   per connection: "none", "running", "closed" (the handler     *)
(*            returned and its deferred c.Close() ran)                     *)
(*   cbSt     per connection and stream: "none", "running", "closed" (the  *)
(*            callback returned and its deferred stream.Close() ran)       *)
(* History: the places where a panic was raised, and whether Accept        *)
(* returned an error.                                                      *)
(***************************************************************************)
VARIABLES procSt, taskSt, cbSt, faults, acceptErr

procVars == <<procSt, taskSt, cbSt, faults, acceptErr>>

(***************************************************************************)
(* The two sync.RWMutex of src/v2board/auth.go (AuthManager.mu, line 23,   *)
(* TrafficManager.mu) and the goroutines that take them, lock step by lock *)
(* step.                                                                   *)
(*   authMu, trafficMu  w: the goroutine holding the write lock or "none", *)
(*                      r: the goroutines holding a read lock, wait: the  *)
(*                      goroutines blocked in Lock()                       *)
(*   goPc               per goroutine, its position                        *)
(*   counterMade        the Record callers (each records for an id of its  *)
(*                      own) whose counter is in the map                   *)
(***************************************************************************)
VARIABLES authMu, trafficMu, goPc, counterMade

lockVars == <<authMu, trafficMu, goPc, counterMade>>

handlerVars == <<connPc, burst, bufOff, hashBytes, userID, sessStarted, tlsConn>>
streamVars == <<sPc, sDest, sCount, reportedAs, wroteBack>>
admitVars == <<authOk, admitID, admitIds, parsed, outcome>>
connVars == <<handlerVars, streamVars, admitVars>>

snapVars == <<usersByHash, usersById, byHashFrom, byIdFrom, limitCells>>
loopVars == <<amPc, beforeRefresh, lastRefresh, ticked>>
authVars == <<snapVars, loopVars>>
srvVars == <<srvMode, passwordSha256>>

vars == <<trafficVars, authVars, srvVars, lookup, connVars, relayVars,
    procVars, held, lockVars>>

\* what the steps of one subsystem leave alone
notTraffic == <<authVars, srvVars, lookup, connVars, relayVars, procVars,
    held, lockVars>>
notRefresh == <<trafficVars, srvVars, lookup, connVars, relayVars, procVars,
    lockVars>>
notLookup == <<trafficVars, authVars, srvVars, connVars, relayVars, procVars,
    held, lockVars>>
notHandler == <<trafficVars, authVars, srvVars, lookup, relayVars, procVars,
    held, lockVars>>
notRelay == <<trafficVars, authVars, srvVars, lookup, handlerVars, admitVars,
    procVars, held, lockVars>>
notProc == <<trafficVars, authVars, srvVars, lookup, connVars, relayVars,
    held, lockVars>>
notLocks ==
    <<trafficVars, authVars, srvVars, lookup, connVars, relayVars, procVars, held>>
notCopy == <<trafficVars, loopVars, srvVars, lookup, connVars, relayVars,
    procVars, lockVars>>

NoArgs == [id |-> 0, upload |-> 0, download |-> 0]
Zeroes == [id \in UserIDs |-> 0]

\* NewTrafficManager: an empty counter map
NewTrafficManager ==
    /\ objs = <<>>
    /\ counters = <<>>
    /\ tmReaders = {}

InitTraffic ==
    /\ NewTrafficManager
    /\ recPc = [p \in Callers |-> "idle"]
    /\ recArgs = [p \in Callers |-> NoArgs]
    /\ recCounter = [p \in Callers |-> 0]
    /\ calls = 0
    /\ pushPc = "idle"
    /\ pushTodo = {}
    /\ pushCur = 0
    /\ pushUpload = 0
    /\ records = <<>>
    /\ restoreIdx = 1
    /\ tmPc = "start"
    /\ pushTicked = FALSE
    /\ calledUp = Zeroes
    /\ calledDown = Zeroes
    /\ acceptedUp = Zeroes
    /\ acceptedDown = Zeroes
    /\ sampledUp = Zeroes
    /\ sampledDown = Zeroes
    /\ duringUp = Zeroes
    /\ duringDown = Zeroes
    /\ lastOutcome = "none"

(***************************************************************************)
(* Users, secrets and fingerprints.                                        *)
(***************************************************************************)
\* the UUIDs the panel hands out, and every secret of the run
UUIDs == {"uuid-a", "uuid-b"}
Password == "hunter2"
Secrets == UUIDs \cup {Password, "uuid-unknown"}

\* User (src/v2board/auth.go, 228-235)
User(id, uuid) == [ID |-> id, UUID |-> uuid]
Users == {User(id, uuid) : id \in UserIDs, uuid \in UUIDs}

\* every list GetUserList can return: repeated ids and secrets included
UserLists == UNION {[1..n -> Users] : n \in 0..MaxListLen}

\* sha256.Sum256: a 32-byte digest, different for different secrets
SecretCode(secret) ==
    CASE secret = "uuid-a" -> 11
      [] secret = "uuid-b" -> 23
      [] secret = Password -> 47
      [] OTHER -> 71
Sha256Table ==
    [secret \in Secrets |-> [i \in 1..Sha256Size |-> (SecretCode(secret) + 37 * i) % 256]]
Sha256(secret) == Sha256Table[secret]

\* userEntry (src/v2board/auth.go, 15-18)
UserEntry(u) == [user |-> u, passwordHash |-> Sha256(u.UUID)]

\* what a client can send as its password hash: the digest of every secret,
\* a digest cut to 31 bytes, a digest followed by one more byte, nothing
Digests == {Sha256(x) : x \in Secrets}
ShortHashes == {SubSeq(Sha256(x), 1, Sha256Size - 1) : x \in {"uuid-a", Password}}
LongHashes == {Sha256(x) \o <<0>> : x \in {"uuid-a", Password}}
Hashes == Digests \cup ShortHashes \cup LongHashes \cup {<<>>}

NoLookup == [op |-> "none"]

\* NewAuthManager (src/v2board/auth.go, 31-37): two empty maps
NewAuthManager ==
    /\ usersByHash = <<>>
    /\ usersById = <<>>
    /\ limitCells = <<>>

\* no caller holds a *User
NoCopy == [got |-> FALSE]

InitAuth ==
    /\ NewAuthManager
    /\ amPc = "start"
    /\ byHashFrom = <<>>
    /\ byIdFrom = <<>>
    /\ beforeRefresh = <<<<>>, <<>>>>
    /\ lastRefresh = "none"
    /\ ticked = FALSE
    /\ held = NoCopy

\* NewMyServer / NewMyServerV2board (src/cmd/server/myserver.go, 23-37)
InitServer ==
    \/ /\ srvMode = "static"
       /\ passwordSha256 = Sha256(Password)
    \/ /\ srvMode = "v2board"
       /\ passwordSha256 = <<>>

\* the streams a client opens on one session
Streams == {"s1"}

\* an accepted connection the handler has not yet run on
InitConn ==
    /\ connPc = "accepted"
    /\ burst = <<>>
    /\ bufOff = 0
    /\ hashBytes = <<>>
    /\ userID = 0
    /\ sessStarted = FALSE
    /\ sPc = [s \in Streams |-> "none"]
    /\ sDest = [s \in Streams |-> <<>>]
    /\ sCount = [s \in Streams |-> <<0, 0>>]
    /\ authOk = "none"
    /\ admitID = 0
    /\ admitIds = {}
    /\ parsed = 0
    /\ wroteBack = FALSE
    /\ outcome = "open"
    /\ reportedAs = [s \in Streams |-> -1]
    /\ tlsConn = "open"

\* the connections the listener hands out and the streams of each session
Conns == {"c1", "c2"}
ConnStreams == {"s1", "s2"}

\* main has reached its accept loop; nothing was accepted
InitProc ==
    /\ procSt = "running"
    /\ taskSt = [c \in Conns |-> "none"]
    /\ cbSt = [c \in Conns |-> [s \in ConnStreams |-> "none"]]
    /\ faults = {}
    /\ acceptErr = FALSE

Dirs == {"up", "down"}

\* the goroutines that take a lock: refresh() of AuthManager.Start, push()
\* of TrafficManager.Start, a caller of CheckAuth, one of GetUserByID, two
\* of Record
LookupCallers == {"CheckAuth", "GetUserByID"}
RecordCallers == {"Record-a", "Record-b"}
Goroutines == {"refresh", "push"} \cup LookupCallers \cup RecordCallers

\* an unlocked sync.RWMutex
NewRWMutex == [w |-> "none", r |-> {}, wait |-> {}]

InitLocks ==
    /\ authMu = NewRWMutex
    /\ trafficMu = NewRWMutex
    /\ goPc = [g \in Goroutines |-> "idle"]
    /\ counterMade = {}

\* no relay has been called
InitRelay ==
    /\ rPc = "none"
    /\ remoteIsTCP = FALSE
    /\ cpPc = [d \in Dirs |-> "idle"]
    /\ copyN = [d \in Dirs |-> 0]
    /\ ret = [upload |-> 0, download |-> 0]
    /\ done = 0
    /\ recvd = 0
    /\ clientSt = "open"
    /\ remoteSt = "none"
    /\ hsReport = "none"
    /\ firstDone = "none"
    /\ cutOff = {}

Init ==
    /\ InitTraffic
    /\ InitAuth
    /\ InitServer
    /\ lookup = NoLookup
    /\ InitConn
    /\ InitRelay
    /\ InitProc
    /\ InitLocks

Pos(n) == IF n > 0 THEN n ELSE 0

(***************************************************************************)
(* TrafficManager.Record (src/v2board/auth.go, 341-366)                    *)
(***************************************************************************)

\* a Record that returns early only when both amounts are zero
RecordIsNoop_OnlyZero(upload, download) == upload = 0 /\ download = 0

\* line 342: the early return of Record
RecordIsNoop(upload, download) == upload <= 0 /\ download <= 0

\* line 360 / 363: the guard of each Add
RecordAdds(amount) == amount > 0

\* lines 360-366: where a call goes on once it holds its counter: an Add
\* whose guard is false is passed over
PcAfterLookup(a) ==
    IF RecordAdds(a.upload) THEN "addUp"
    ELSE IF RecordAdds(a.download) THEN "addDown" ELSE "idle"

\* lines 341-350: entry of Record(userID, upload, download): the early
\* return, else the probe of the map under RLock (no writer holds mu between
\* steps)
RecordCall(p, id, upload, download) ==
    /\ UNCHANGED notTraffic
    /\ recPc[p] = "idle"
    /\ calls < MaxCalls
    /\ calls' = calls + 1
    /\ calledUp' = [calledUp EXCEPT ![id] = @ + Pos(upload)]
    /\ calledDown' = [calledDown EXCEPT ![id] = @ + Pos(download)]
    /\ LET a == [id |-> id, upload |-> upload, download |-> download] IN
       IF RecordIsNoop(upload, download)
       THEN UNCHANGED <<recPc, recArgs, recCounter>>
       ELSE /\ recArgs' = [recArgs EXCEPT ![p] = a]
            /\ IF id \in DOMAIN counters
               THEN /\ recCounter' = [recCounter EXCEPT ![p] = counters[id]]
                    /\ recPc' = [recPc EXCEPT ![p] = PcAfterLookup(a)]
               ELSE /\ recPc' = [recPc EXCEPT ![p] = "create"]
                    /\ UNCHANGED recCounter
    /\ UNCHANGED <<progVars, pushVars, flushHist, duringVars>>

\* a Record that does not look again once it holds the write lock
RecordRecheckFinds_NoRecheck(id) == FALSE

\* line 353: the re-check under the write lock
RecordRecheckFinds(id) == id \in DOMAIN counters

\* lines 352-357: Lock, re-check, create if still absent, Unlock
RecordCreate(p) ==
    /\ UNCHANGED notTraffic
    /\ recPc[p] = "create"
    /\ tmReaders = {}
    /\ LET id == recArgs[p].id IN
       IF RecordRecheckFinds(id)
       THEN /\ recCounter' = [recCounter EXCEPT ![p] = counters[id]]
            /\ UNCHANGED <<objs, counters>>
       ELSE /\ objs' = Append(objs, [id |-> id, upload |-> 0, download |-> 0])
            /\ counters' = (id :> (Len(objs) + 1)) @@ counters
            /\ recCounter' = [recCounter EXCEPT ![p] = Len(objs) + 1]
    /\ recPc' = [recPc EXCEPT ![p] = PcAfterLookup(recArgs[p])]
    /\ UNCHANGED <<tmReaders, recArgs, calls, pushVars, calledVars, flushHist, duringVars>>

\* lines 360-362: counter.upload.Add(upload); return unless download > 0
RecordAddUp(p) ==
    /\ UNCHANGED notTraffic
    /\ recPc[p] = "addUp"
    /\ LET a == recArgs[p] IN
       /\ objs' = [objs EXCEPT ![recCounter[p]].upload = @ + a.upload]
       /\ duringUp' = [duringUp EXCEPT ![a.id] = @ + a.upload]
       /\ IF RecordAdds(a.download)
          THEN /\ recPc' = [recPc EXCEPT ![p] = "addDown"]
               /\ UNCHANGED <<recArgs, recCounter>>
          ELSE /\ recPc' = [recPc EXCEPT ![p] = "idle"]
               /\ recArgs' = [recArgs EXCEPT ![p] = NoArgs]
               /\ recCounter' = [recCounter EXCEPT ![p] = 0]
    /\ UNCHANGED <<counters, tmReaders, calls, pushVars,
                   calledVars, flushHist, duringDown>>

\* lines 363-366: counter.download.Add(download); return
RecordAddDown(p) ==
    /\ UNCHANGED notTraffic
    /\ recPc[p] = "addDown"
    /\ LET a == recArgs[p] IN
       /\ objs' = [objs EXCEPT ![recCounter[p]].download = @ + a.download]
       /\ duringDown' = [duringDown EXCEPT ![a.id] = @ + a.download]
    /\ recPc' = [recPc EXCEPT ![p] = "idle"]
    /\ recArgs' = [recArgs EXCEPT ![p] = NoArgs]
    /\ recCounter' = [recCounter EXCEPT ![p] = 0]
    /\ UNCHANGED <<counters, tmReaders, calls, pushVars,
                   calledVars, flushHist, duringUp>>

Record(p) ==
    \/ \E id \in UserIDs, in \in RecordInputs : RecordCall(p, id, in[1], in[2])
    \/ RecordCreate(p)
    \/ RecordAddUp(p)
    \/ RecordAddDown(p)

(***************************************************************************)
(* TrafficManager.push (src/v2board/auth.go, 382-421), one run at a time,  *)
(* driven by the ticker of TrafficManager.Start.                           *)
(***************************************************************************)

\* TrafficRecord (src/v2board/auth.go, 266-273)
TrafficRecord(id, upload, download) ==
    [UserID |-> id, Upload |-> upload, Download |-> download]

\* a loop that appends every sampled pair
PushKeeps_All(upload, download) == TRUE

\* line 392: the filter of sampled pairs
PushKeeps(upload, download) == upload > 0 \/ download > 0

\* a restore that stores the sampled amount over the live counter
RestoreValue_Overwrite(live, amount) == amount

\* a push that drops the round's amounts when the sink fails
RestoreValue_Discard(live, amount) == live

\* lines 412-413: what the restore writes into a live counter
RestoreValue(live, amount) == live + amount

\* lines 370-374: Start logs and creates the ticker
TrafficStart ==
    /\ UNCHANGED notTraffic
    /\ tmPc = "start"
    /\ tmPc' = "wait"
    /\ UNCHANGED <<progVars, recVars, pushPc, pushTodo, pushCur, pushUpload, records,
                   restoreIdx, pushTicked, calledVars, flushHist, duringVars>>

\* a Start that flushes before its first tick
PushMayStart_AtOnce(pc) == TRUE

\* lines 376-378: push() is called for a value of ticker.C, by the one
\* goroutine of Start, so after the push before it returned
PushMayStart(pc) == pc = "wait"

\* line 376: a tick; lines 386-388: records is empty, RLock, the range loop
\* begins
PushStart ==
    /\ UNCHANGED <<notTraffic, tmPc>>
    /\ PushMayStart(tmPc)
    /\ pushPc = "idle"
    /\ pushTicked' = (pushTicked \/ tmPc = "wait")
    /\ tmReaders' = tmReaders \cup {"push"}
    /\ pushTodo' = DOMAIN counters
    /\ records' = <<>>
    /\ pushPc' = "loop"
    /\ UNCHANGED <<objs, counters, recVars, pushCur, pushUpload, restoreIdx,
                   calledVars, flushHist, duringVars>>

\* lines 389-390: the next key of the map, in any order; upload.Swap(0)
PushSwapUpload(id) ==
    /\ UNCHANGED <<notTraffic, flushLoop>>
    /\ pushPc = "loop"
    /\ id \in pushTodo
    /\ pushCur' = id
    /\ pushUpload' = objs[counters[id]].upload
    /\ objs' = [objs EXCEPT ![counters[id]].upload = 0]
    /\ sampledUp' = [sampledUp EXCEPT ![id] = @ + duringUp[id]]
    /\ duringUp' = [duringUp EXCEPT ![id] = 0]
    /\ pushPc' = "swapDown"
    /\ UNCHANGED <<counters, tmReaders, recVars, pushTodo, records, restoreIdx,
                   calledVars, acceptedUp, acceptedDown, sampledDown, lastOutcome,
                   duringDown>>

\* lines 391-398: download.Swap(0); append the pair unless both are zero
PushSwapDownload ==
    /\ UNCHANGED <<notTraffic, flushLoop>>
    /\ pushPc = "swapDown"
    /\ LET id == pushCur
           download == objs[counters[id]].download
       IN /\ objs' = [objs EXCEPT ![counters[id]].download = 0]
          /\ records' = IF PushKeeps(pushUpload, download)
                        THEN Append(records, TrafficRecord(id, pushUpload, download))
                        ELSE records
          /\ sampledDown' = [sampledDown EXCEPT ![id] = @ + duringDown[id]]
          /\ duringDown' = [duringDown EXCEPT ![id] = 0]
          /\ pushTodo' = pushTodo \ {id}
    /\ pushCur' = 0
    /\ pushUpload' = 0
    /\ pushPc' = "loop"
    /\ UNCHANGED <<counters, tmReaders, recVars, restoreIdx,
                   calledVars, acceptedUp, acceptedDown, sampledUp, lastOutcome,
                   duringUp>>

\* lines 400-404: RUnlock; return when nothing was sampled
PushLoopEnd ==
    /\ UNCHANGED <<notTraffic, flushLoop>>
    /\ pushPc = "loop"
    /\ pushTodo = {}
    /\ tmReaders' = tmReaders \ {"push"}
    /\ IF Len(records) = 0
       THEN /\ pushPc' = "idle"
            /\ lastOutcome' = "empty"
       ELSE /\ pushPc' = "sink"
            /\ UNCHANGED lastOutcome
    /\ UNCHANGED <<objs, counters, recVars, pushTodo, pushCur, pushUpload, records,
                   restoreIdx, calledVars, acceptedUp, acceptedDown,
                   sampledUp, sampledDown, duringVars>>

\* Sum of one field of the records from index lo on, for one id
RECURSIVE BatchSum(_, _, _, _)
BatchSum(batch, lo, id, field) ==
    IF lo > Len(batch) THEN 0
    ELSE LET r == batch[lo]
             v == IF r.UserID = id
                  THEN (IF field = "u" THEN r.Upload ELSE r.Download)
                  ELSE 0
         IN v + BatchSum(batch, lo + 1, id, field)

\* lines 406, 420: Client.PushTraffic(records) returns nil
PushSinkAccepts ==
    /\ UNCHANGED <<notTraffic, flushLoop>>
    /\ pushPc = "sink"
    /\ acceptedUp' = [id \in UserIDs |->
                        acceptedUp[id] + BatchSum(records, 1, id, "u")]
    /\ acceptedDown' = [id \in UserIDs |->
                        acceptedDown[id] + BatchSum(records, 1, id, "d")]
    /\ sampledUp' = Zeroes
    /\ sampledDown' = Zeroes
    /\ lastOutcome' = "accepted"
    /\ records' = <<>>
    /\ pushPc' = "idle"
    /\ UNCHANGED <<progVars, recVars, pushTodo, pushCur, pushUpload, restoreIdx,
                   calledVars, duringVars>>

\* lines 406-409: Client.PushTraffic(records) returns an error; RLock
PushSinkFails ==
    /\ UNCHANGED <<notTraffic, flushLoop>>
    /\ pushPc = "sink"
    /\ tmReaders' = tmReaders \cup {"push"}
    /\ restoreIdx' = 1
    /\ pushPc' = "restore"
    /\ UNCHANGED <<objs, counters, recVars, pushTodo, pushCur, pushUpload, records,
                   calledVars, flushHist, duringVars>>

\* lines 410-412: the next record; counter.upload.Add(rec.Upload) if the id is known
PushRestoreUpload ==
    /\ UNCHANGED <<notTraffic, flushLoop>>
    /\ pushPc = "restore"
    /\ restoreIdx <= Len(records)
    /\ LET rec == records[restoreIdx] IN
       IF rec.UserID \in DOMAIN counters
       THEN objs' = [objs EXCEPT ![counters[rec.UserID]].upload =
                                     RestoreValue(@, rec.Upload)]
       ELSE UNCHANGED objs
    /\ pushPc' = "restoreDown"
    /\ UNCHANGED <<counters, tmReaders, recVars, pushTodo, pushCur, pushUpload, records,
                   restoreIdx, calledVars, flushHist, duringVars>>

\* line 413: counter.download.Add(rec.Download)
PushRestoreDownload ==
    /\ UNCHANGED <<notTraffic, flushLoop>>
    /\ pushPc = "restoreDown"
    /\ LET rec == records[restoreIdx] IN
       IF rec.UserID \in DOMAIN counters
       THEN objs' = [objs EXCEPT ![counters[rec.UserID]].download =
                                     RestoreValue(@, rec.Download)]
       ELSE UNCHANGED objs
    /\ restoreIdx' = restoreIdx + 1
    /\ pushPc' = "restore"
    /\ UNCHANGED <<counters, tmReaders, recVars, pushTodo, pushCur, pushUpload, records,
                   calledVars, flushHist, duringVars>>

\* lines 415-417: the restore loop is over; RUnlock; return
PushRestoreEnd ==
    /\ UNCHANGED <<notTraffic, flushLoop>>
    /\ pushPc = "restore"
    /\ restoreIdx > Len(records)
    /\ tmReaders' = tmReaders \ {"push"}
    /\ lastOutcome' = "failed"
    /\ records' = <<>>
    /\ restoreIdx' = 1
    /\ pushPc' = "idle"
    /\ UNCHANGED <<objs, counters, recVars, pushTodo, pushCur, pushUpload,
                   calledVars, acceptedUp, acceptedDown, sampledUp, sampledDown,
                   duringVars>>

Push ==
    \/ TrafficStart
    \/ PushStart
    \/ \E id \in UserIDs : PushSwapUpload(id)
    \/ PushSwapDownload
    \/ PushLoopEnd
    \/ PushSinkAccepts
    \/ PushSinkFails
    \/ PushRestoreUpload
    \/ PushRestoreDownload
    \/ PushRestoreEnd

(***************************************************************************)
(* Where an amount is, per user id and direction.                          *)
(***************************************************************************)
LiveUp(id) == IF id \in DOMAIN counters THEN objs[counters[id]].upload ELSE 0
LiveDown(id) == IF id \in DOMAIN counters THEN objs[counters[id]].download ELSE 0

\* asked of Record() by the call of p, which has not yet done the Add
PendingOf(p, id, field) ==
    IF recArgs[p].id # id THEN 0
    ELSE IF field = "u"
         THEN (IF recPc[p] \in {"create", "addUp"} THEN Pos(recArgs[p].upload) ELSE 0)
         ELSE (IF recPc[p] \in {"create", "addUp", "addDown"}
               THEN Pos(recArgs[p].download) ELSE 0)

RECURSIVE PendingSum(_, _, _)
PendingSum(ps, id, field) ==
    IF ps = {} THEN 0
    ELSE LET p == CHOOSE q \in ps : TRUE
         IN PendingOf(p, id, field) + PendingSum(ps \ {p}, id, field)

PendingUp(id) == PendingSum(Callers, id, "u")
PendingDown(id) == PendingSum(Callers, id, "d")

\* held by push(): in its local upload, or in records and not (yet) added back
HeldUp(id) ==
    CASE pushPc \in {"loop", "sink"} -> BatchSum(records, 1, id, "u")
      [] pushPc = "swapDown" -> BatchSum(records, 1, id, "u")
                                + (IF pushCur = id THEN pushUpload ELSE 0)
      [] pushPc = "restore" -> BatchSum(records, restoreIdx, id, "u")
      [] pushPc = "restoreDown" ->
                      BatchSum(records, restoreIdx + 1, id, "u")
      [] OTHER -> 0
HeldDown(id) ==
    CASE pushPc \in {"loop", "sink", "swapDown"} ->
                      BatchSum(records, 1, id, "d")
      [] pushPc \in {"restore", "restoreDown"} ->
                      BatchSum(records, restoreIdx, id, "d")
      [] OTHER -> 0

AllIdle == \A p \in Callers : recPc[p] = "idle"
EntriesOf(id) == {i \in DOMAIN records : records[i].UserID = id}

C3_NoopRecord ==
    /\ \A id \in DOMAIN counters : calledUp[id] + calledDown[id] > 0
    /\ \A i \in DOMAIN records :
          calledUp[records[i].UserID] + calledDown[records[i].UserID] > 0
    /\ \A o \in DOMAIN objs :
          /\ objs[o].upload >= 0 /\ objs[o].upload <= calledUp[objs[o].id]
          /\ objs[o].download >= 0 /\ objs[o].download <= calledDown[objs[o].id]

\* both calls of the run are over: one was a no-op, the other gave user 1 a
\* positive upload and no positive download
C3_Witness ==
    /\ calls = 2
    /\ AllIdle
    /\ pushPc = "idle" /\ lastOutcome = "none"
    /\ DOMAIN counters = {1}
    /\ LiveUp(1) = 1 /\ LiveDown(1) = 0
    /\ calledUp[2] + calledDown[2] = 0

(***************************************************************************)
(* C4.  Concurrent Record() calls on an unseen id install one counter      *)
(* object: the heap never holds two objects made for the same id, every    *)
(* call that is past its lookup holds the object the map holds for its id, *)
(* and when all calls are over (and no flush has run) the counter holds    *)
(* the sum of the amounts they were called with.                           *)
(***************************************************************************)
C4_OneCounterPerId ==
    /\ \A o1, o2 \in DOMAIN objs : objs[o1].id = objs[o2].id => o1 = o2
    /\ \A p \in Callers :
          recPc[p] \in {"addUp", "addDown"} =>
              /\ recArgs[p].id \in DOMAIN counters
              /\ recCounter[p] = counters[recArgs[p].id]
    /\ (AllIdle /\ pushPc = "idle" /\ lastOutcome = "none") =>
          \A id \in UserIDs :
              LiveUp(id) = calledUp[id] /\ LiveDown(id) = calledDown[id]

\* two calls for the same unseen id both missed in the probe: one has
\* created the counter, the other is about to take the write lock
C4_Witness ==
    /\ recPc["a"] = "create"
    /\ recPc["b"] \in {"addUp", "addDown"}
    /\ recArgs["a"].id = recArgs["b"].id

AtSink == pushPc \in {"sink", "restore", "restoreDown"}

\* C22: every batch handed to the sink is non-empty, has each user id at
\* most once, and every entry of it has upload > 0 or download > 0 with
\* neither field negative; a flush whose counters all sample to zero keeps
\* no entry, so it makes no sink call.
C22_BatchWellFormed ==
    /\ \A i \in 1..Len(records) :
           /\ records[i].Upload >= 0
           /\ records[i].Download >= 0
           /\ records[i].Upload > 0 \/ records[i].Download > 0
           /\ \A j \in 1..Len(records) :
                  i # j => records[i].UserID # records[j].UserID
    /\ AtSink => Len(records) > 0
    /\ lastOutcome = "empty" /\ pushPc = "idle" => records = <<>>

\* C22 witness: a batch of two users is at the sink, one entry of it with
\* download only
C22_Witness ==
    /\ pushPc = "sink"
    /\ Len(records) = 2
    /\ \E i \in 1..2 : records[i].Upload = 0 /\ records[i].Download > 0

\* every Record() call so far was Record(id, 1, 1)
OnlyPairsFor(id) == calledUp[id] = calls /\ calledDown[id] = calls

\* C23: push() takes and resets the two counters of a user as a pair with
\* respect to concurrent Record() calls: the upload and the download amount
\* of one Record(id, u, d) call with u > 0 and d > 0 go into the same
\* batch.  So when every call so far was Record(id, 1, 1), a batch handed
\* to the sink carries as much upload as download for id.  The code takes
\* the two counters with two Swaps (lines 390-391) and Record adds to them
\* with two Adds (lines 360-365), so a flush between the two Adds, or a
\* Record between the two Swaps, puts the halves of one call into
\* different batches.
C23_PairSampledTogether ==
    \A id \in UserIDs :
        OnlyPairsFor(id) /\ pushPc = "sink" =>
            \A i \in 1..Len(records) :
                records[i].UserID = id =>
                    records[i].Upload = records[i].Download

(***************************************************************************)
(* AuthManager.refresh and AuthManager.Start (src/v2board/auth.go, 41-87)  *)
(***************************************************************************)

\* lines 67-78: the loop that builds newByHash; a later user of the list
\* replaces an earlier one under the same key
RECURSIVE BuildByHash(_)
BuildByHash(users) ==
    IF Len(users) = 0 THEN <<>>
    ELSE LET u == users[Len(users)]
         IN (Sha256(u.UUID) :> UserEntry(u)) @@ BuildByHash(SubSeq(users, 1, Len(users) - 1))

\* lines 67-78: the same loop, building newById
RECURSIVE BuildById(_)
BuildById(users) ==
    IF Len(users) = 0 THEN <<>>
    ELSE LET u == users[Len(users)]
         IN (u.ID :> UserEntry(u)) @@ BuildById(SubSeq(users, 1, Len(users) - 1))

\* a map of the snapshot with the list it was built from
Built(map, list) == [map |-> map, from |-> list]

\* a refresh that keeps going when the fetch failed
RefreshReturnsOn_Ignored(failed) == FALSE

\* lines 62-64: refresh returns the error of GetUserList
RefreshReturnsOn(failed) == failed

\* a swap that leaves the id map as it was
SwapById_Forgotten(cur, new) == cur

\* line 82: m.usersById = newById
SwapById(cur, new) == new

\* line 81: m.usersByHash = newByHash
SwapByHash(cur, new) == new

\* a loop that ends when a refresh returned an error
PcAfterRefresh_Stops(err) == IF err THEN "stopped" ELSE "wait"

\* lines 45-56: Start logs the error of refresh and waits for the next tick
PcAfterRefresh(err) == "wait"

\* lines 41-45: Start calls refresh at once
AuthStart ==
    /\ UNCHANGED notRefresh
    /\ srvMode = "v2board"
    /\ amPc = "start"
    /\ amPc' = "fetch"
    /\ beforeRefresh' = <<usersByHash, usersById>>
    /\ UNCHANGED <<snapVars, lastRefresh, ticked, held>>

\* lines 52-53: a tick of the ticker; Start calls refresh again
AuthTick ==
    /\ UNCHANGED notRefresh
    /\ amPc = "wait"
    /\ amPc' = "fetch"
    /\ ticked' = TRUE
    /\ beforeRefresh' = <<usersByHash, usersById>>
    /\ UNCHANGED <<snapVars, lastRefresh, held>>

\* the speed_limit the panel sends for a user: 10 for user 1, null for others
PanelSpeedLimit(u) == IF u.ID = 1 THEN <<10>> ELSE <<>>

\* lines 228-261: the JSON decoder makes one uint32 for every user of the
\* list that has a speed_limit
DecodeLimits(users) == [i \in 1..Len(users) |-> PanelSpeedLimit(users[i])]

\* lines 73-77: the entry of newById for an id is built from the last user
\* of the list with that id
EntryIndex(list, id) ==
    CHOOSE i \in 1..Len(list) :
        list[i].ID = id /\ \A j \in (i + 1)..Len(list) : list[j].ID # id

\* lines 80-83: the old maps are dropped; a *User handed out before keeps
\* its pointer, now to a cell of no entry
Outlived(h) ==
    IF h.got /\ h.ptr > 0
    THEN [h EXCEPT !.ptr = -1, !.own = limitCells[h.ptr]]
    ELSE h

\* lines 60-87: GetUserList returns users (nil with an error).  On an error
\* refresh returns it and nothing else happens.  Otherwise refresh builds
\* the two maps off to the side and replaces both while it holds the write
\* lock: no reader runs between the two assignments, and the steps before
\* them touch only locals of refresh, so the call is one step.
RefreshFetch(users, failed) ==
    /\ UNCHANGED <<notRefresh, ticked>>
    /\ amPc = "fetch"
    /\ IF RefreshReturnsOn(failed)
       THEN /\ lastRefresh' = "error"
            /\ amPc' = PcAfterRefresh(TRUE)
            /\ UNCHANGED <<snapVars, beforeRefresh, held>>
       ELSE LET h == SwapByHash(Built(usersByHash, byHashFrom),
                                Built(BuildByHash(users), users))
                d == SwapById(Built(usersById, byIdFrom),
                              Built(BuildById(users), users))
            IN /\ usersByHash' = h.map
               /\ byHashFrom' = h.from
               /\ usersById' = d.map
               /\ byIdFrom' = d.from
               /\ limitCells' = DecodeLimits(users)
               /\ held' = Outlived(held)
               /\ beforeRefresh' = IF failed THEN beforeRefresh ELSE <<h.map, d.map>>
               /\ lastRefresh' = IF failed THEN "error" ELSE "ok"
               /\ amPc' = PcAfterRefresh(failed)

\* GetUserList succeeds with any list
RefreshOk == \E users \in UserLists : RefreshFetch(users, FALSE)

\* GetUserList fails
RefreshFails == RefreshFetch(<<>>, TRUE)

Refresh ==
    \/ AuthStart
    \/ AuthTick
    \/ RefreshOk
    \/ RefreshFails

(***************************************************************************)
(* AuthManager.CheckAuth and GetUserByID (src/v2board/auth.go, 92-121)     *)
(***************************************************************************)

\* a CheckAuth that takes a hash of any length
CheckAuthLenOk_Any(passwordHash) == TRUE

\* line 93: the length check of CheckAuth
CheckAuthLenOk(passwordHash) == Len(passwordHash) = Sha256Size

\* lines 97-98: copy(key[:], passwordHash) into a zeroed 32-byte array
Key(passwordHash) ==
    [i \in 1..Sha256Size |-> IF i <= Len(passwordHash) THEN passwordHash[i] ELSE 0]

\* lines 92-108: the result of CheckAuth on a by-hash map, and whether the
\* map was read
CheckAuth(byHash, passwordHash) ==
    IF ~CheckAuthLenOk(passwordHash)
    THEN [userID |-> 0, ok |-> FALSE, read |-> FALSE]
    ELSE IF Key(passwordHash) \in DOMAIN byHash
         THEN [userID |-> byHash[Key(passwordHash)].user.ID, ok |-> TRUE, read |-> TRUE]
         ELSE [userID |-> 0, ok |-> FALSE, read |-> TRUE]

\* lines 111-121: the result of GetUserByID on a by-id map: a copy of the
\* user of the entry
GetUserByID(byId, id) ==
    IF id \in DOMAIN byId
    THEN [user |-> byId[id].user, found |-> TRUE]
    ELSE [user |-> User(0, ""), found |-> FALSE]

(***************************************************************************)
(* myServer.authenticate (src/cmd/server/myserver.go, 41-60)               *)
(***************************************************************************)

\* a compare that does not look at the lengths
StaticLenOk_Any(passwordHash, secretHash) == TRUE

\* line 47: the length check of the static compare
StaticLenOk(passwordHash, secretHash) == Len(passwordHash) = Len(secretHash)

\* lines 48-54: the byte loop over passwordHash
StaticBytesMatch(passwordHash, secretHash) ==
    \A i \in DOMAIN passwordHash :
        i \in DOMAIN secretHash /\ passwordHash[i] = secretHash[i]

\* lines 41-60: the result of authenticate
Authenticate(passwordHash) ==
    IF srvMode = "v2board"
    THEN LET r == CheckAuth(usersByHash, passwordHash)
         IN [userID |-> r.userID, ok |-> r.ok]
    ELSE IF StaticLenOk(passwordHash, passwordSha256)
            /\ StaticBytesMatch(passwordHash, passwordSha256)
         THEN [userID |-> 0, ok |-> TRUE]
         ELSE [userID |-> 0, ok |-> FALSE]

(***************************************************************************)
(* What a lookup has to answer, read off the fetched list itself.          *)
(***************************************************************************)
\* the users of a list with the given fingerprint, with the given id
WithHash(list, h) == {i \in DOMAIN list : Sha256(list[i].UUID) = h}
WithID(list, id) == {i \in DOMAIN list : list[i].ID = id}

\* the ids a fingerprint may resolve to in a snapshot built from the list
IdsOfHash(list, h) == {list[i].ID : i \in WithHash(list, h)}
UsersOfID(list, id) == {list[i] : i \in WithID(list, id)}

\* a call from outside: CheckAuth(h), with what the list behind the
\* published by-hash map says about h
CheckAuthCall(h) ==
    /\ UNCHANGED notLookup
    /\ srvMode = "v2board"
    /\ lookup' = [op |-> "CheckAuth", input |-> h,
                  result |-> CheckAuth(usersByHash, h),
                  ids |-> IdsOfHash(byHashFrom, h)]

GetUserByIDCall(id) ==
    /\ UNCHANGED notLookup
    /\ srvMode = "v2board"
    /\ lookup' = [op |-> "GetUserByID", input |-> id,
                  result |-> GetUserByID(usersById, id),
                  users |-> UsersOfID(byIdFrom, id)]

AuthenticateCall(h) ==
    /\ UNCHANGED notLookup
    /\ lookup' = [op |-> "authenticate", input |-> h,
                  result |-> Authenticate(h),
                  ids |-> IdsOfHash(byHashFrom, h)]

Lookups ==
    \/ \E h \in Hashes : CheckAuthCall(h)
    \/ \E id \in UserIDs : GetUserByIDCall(id)
    \/ \E h \in Hashes : AuthenticateCall(h)

NextAuth ==
    \/ Refresh
    \/ Lookups

SpecAuth == Init /\ [][NextAuth]_vars

\* the ticker of Start fires again and again
SpecAuthLive == Init /\ [][NextAuth]_vars /\ WF_vars(AuthTick)

(***************************************************************************)
(* C5.  Refresh is atomic to readers: in every state the by-hash map and   *)
(* the by-id map were built from the same fetched list (every user of one  *)
(* map is a user of the other), and each lookup answered from the list     *)
(* that was published when it ran.                                         *)
(***************************************************************************)
C5_RefreshAtomic ==
    /\ byHashFrom = byIdFrom
    /\ \A k \in DOMAIN usersByHash : usersByHash[k].user.ID \in DOMAIN usersById
    /\ \A id \in DOMAIN usersById : usersById[id].passwordHash \in DOMAIN usersByHash
    /\ lookup.op = "CheckAuth" =>
          /\ lookup.result.ok <=> lookup.ids # {}
          /\ lookup.result.ok => lookup.result.userID \in lookup.ids
    /\ lookup.op = "GetUserByID" =>
          /\ lookup.result.found <=> lookup.users # {}
          /\ lookup.result.found => lookup.result.user \in lookup.users

\* a GetUserByID found its user in the snapshot of the time, and a refresh
\* has since published a list that answers differently
C5_Witness ==
    /\ lookup.op = "GetUserByID"
    /\ lookup.result.found
    /\ lastRefresh = "ok"
    /\ Len(byIdFrom) > 0
    /\ lookup.users # UsersOfID(byIdFrom, lookup.input)

(***************************************************************************)
(* C6.  A refresh whose fetch fails leaves both maps as they were when the *)
(* refresh was called, the loop of Start never ends, and the next tick     *)
(* starts another refresh.                                                 *)
(***************************************************************************)
C6_FailedRefreshKeepsSnapshot ==
    /\ []((lastRefresh = "error" /\ amPc = "wait") =>
              <<usersByHash, usersById>> = beforeRefresh)
    /\ [](amPc \in {"start", "fetch", "wait"})
    /\ ((lastRefresh = "error" /\ amPc = "wait") ~> (amPc = "fetch"))

\* a refresh failed with a non-empty snapshot in place, and the next
\* attempt is under way with that snapshot still published
C6_Witness ==
    /\ lastRefresh = "error"
    /\ amPc = "fetch"
    /\ DOMAIN usersByHash # {}
    /\ <<usersByHash, usersById>> = beforeRefresh

\* the refresh loop with its scheduling: the goroutine of Start runs, the
\* ticker fires every pullInterval, and GetUserList returns (the HTTP client
\* has a timeout, auth.go 150-164)
SpecAuthLoop ==
    /\ Init
    /\ [][Refresh]_vars
    /\ WF_vars(AuthStart)
    /\ WF_vars(AuthTick)
    /\ WF_vars(RefreshOk \/ RefreshFails)

(***************************************************************************)
(* C15.  Start refreshes once at once, before it takes any tick, and then  *)
(* once per tick for ever; a refresh that fails, the first one too, does   *)
(* not end the loop.                                                       *)
(***************************************************************************)
C15_RefreshLoop ==
    /\ [](ticked => lastRefresh # "none")
    /\ [](amPc \in {"start", "fetch", "wait"})
    /\ [][amPc = "start" /\ amPc' # "start" => amPc' = "fetch" /\ ~ticked']_vars
    /\ [][amPc = "fetch" /\ amPc' # "fetch" =>
             amPc' = "wait" /\ lastRefresh' \in {"ok", "error"}]_vars
    /\ [][amPc = "wait" /\ amPc' # "wait" => amPc' = "fetch" /\ ticked']_vars
    /\ (srvMode = "v2board" => []<>(amPc = "fetch") /\ []<>(amPc = "wait"))

\* the first refresh failed, a tick came and the second refresh is under way
C15_Witness ==
    /\ lastRefresh = "error"
    /\ ticked
    /\ amPc = "fetch"
    /\ usersByHash = <<>>
    /\ byHashFrom = <<>>

(***************************************************************************)
(* C7.  CheckAuth is an exact-match lookup: a fingerprint of a user of the *)
(* snapshot gives (that user's id, true), any other 32-byte value gives    *)
(* (0, false), and an input of another length gives (0, false) without the *)
(* table being read.                                                       *)
(***************************************************************************)
C7_CheckAuthExact ==
    lookup.op = "CheckAuth" =>
        LET h == lookup.input
            r == lookup.result
        IN /\ Len(h) # Sha256Size => r = [userID |-> 0, ok |-> FALSE, read |-> FALSE]
           /\ (Len(h) = Sha256Size /\ lookup.ids # {}) =>
                 r.ok /\ r.userID \in lookup.ids /\ r.read
           /\ (Len(h) = Sha256Size /\ lookup.ids = {}) =>
                 r = [userID |-> 0, ok |-> FALSE, read |-> TRUE]

\* a 33-byte input that begins with the fingerprint of a user of the
\* snapshot was turned away
C7_Witness ==
    /\ lookup.op = "CheckAuth"
    /\ Len(lookup.input) = Sha256Size + 1
    /\ SubSeq(lookup.input, 1, Sha256Size) \in DOMAIN usersByHash
    /\ ~lookup.result.ok

(***************************************************************************)
(* C26.  In every published snapshot, for any list the panel returns       *)
(* (lists with repeated ids or repeated secrets included), the two maps    *)
(* agree: every fingerprint of usersByHash gives one user, the id that     *)
(* CheckAuth returns for it is found by GetUserByID, and the user that     *)
(* GetUserByID returns for that id is the one whose secret hashes to the   *)
(* fingerprint.                                                            *)
(***************************************************************************)
C26_MapsAgree ==
    \A fp \in DOMAIN usersByHash :
        LET r == CheckAuth(usersByHash, fp)
            g == GetUserByID(usersById, r.userID)
        IN /\ r.ok
           /\ g.found
           /\ g.user.ID = r.userID
           /\ Sha256(g.user.UUID) = fp

(***************************************************************************)
(* C8.  In static-secret mode authenticate(h) succeeds exactly when h is   *)
(* the pre-hashed secret (same length, same bytes) and then gives id 0; in *)
(* directory mode the static secret plays no part and the result is that   *)
(* of CheckAuth(h).                                                        *)
(***************************************************************************)
C8_Authenticate ==
    lookup.op = "authenticate" =>
        LET h == lookup.input
            r == lookup.result
        IN /\ srvMode = "static" =>
                 /\ r.ok <=> h = Sha256(Password)
                 /\ r.userID = 0
           /\ srvMode = "v2board" =>
                 /\ r.ok <=> (Len(h) = Sha256Size /\ lookup.ids # {})
                 /\ r.ok => r.userID \in lookup.ids
                 /\ ~r.ok => r.userID = 0

\* static mode turned away the first 31 bytes of the secret's digest
C8_Witness ==
    /\ lookup.op = "authenticate"
    /\ srvMode = "static"
    /\ Len(lookup.input) = Sha256Size - 1
    /\ lookup.input = SubSeq(passwordSha256, 1, Sha256Size - 1)
    /\ ~lookup.result.ok

(***************************************************************************)
(* handleTcpConnection, isValidAuth, fallback (src/unnamed/part_000,       *)
(* 326-420) and myServer.recordTraffic (src/cmd/server/myserver.go, 63-67) *)
(***************************************************************************)

\* the first packet on the wire: fingerprint, padding length (2 bytes, big
\* endian), padding, then session data
BE16(n) == <<n \div 256, n % 256>>
Packet(h, padLen) == h \o BE16(padLen) \o [i \in 1..padLen |-> 170] \o <<1, 2>>

\* a decoding that drops the high byte
Uint16_LowByte(bytes) == bytes[2]

\* binary.BigEndian.Uint16 (line 361)
Uint16(bytes) == bytes[1] * 256 + bytes[2]

\* the bursts a client may send first: whole packets with every digest and
\* a padding of 0 or 2 bytes; a packet cut inside the fingerprint, inside
\* the length field and inside the padding; a length field that promises
\* 256 bytes of padding with nothing behind it
PadLens == {0, 2}
CutAt == {20, 33, 35}
WholePackets == {Packet(h, n) : h \in Digests, n \in PadLens}
CutPackets ==
    {SubSeq(Packet(Sha256(x), 2), 1, n) : x \in {"uuid-a", Password}, n \in CutAt}
LyingPackets == {Sha256(x) \o <<1, 0>> : x \in {"uuid-a", Password}}
FirstBursts == WholePackets \cup CutPackets \cup LyingPackets

\* the byte counts a relay may return for one direction
RelayCounts == {0, 1}

\* buf.Buffer.ReadBytes(n) fails when fewer than n bytes are left
CanRead(n) == Len(burst) - bufOff >= n

\* an isValidAuth that lets every connection through
IsValidAuth_Always(ok) == TRUE

\* lines 405-414: isValidAuth returns what authenticate said
IsValidAuth(ok) == ok

\* a handler that returns without closing c
DeferredClose_Forgotten(st) == st

\* line 335: defer c.Close() runs when the handler returns or panics
DeferredClose(st) == "closed"

\* the connection after a step of the handler that leaves it at pc
ConnAfter(pc, st) == IF pc = "closed" THEN DeferredClose(st) ELSE st

\* lines 333-346: the TLS wrap and the first read, which succeeds with a burst
ConnReadFirst(bytes) ==
    /\ UNCHANGED notHandler
    /\ connPc = "accepted"
    /\ burst' = bytes
    /\ bufOff' = 0
    /\ connPc' = "auth"
    /\ UNCHANGED <<hashBytes, userID, sessStarted, streamVars, admitVars>>
    /\ tlsConn' = ConnAfter(connPc', tlsConn)

\* lines 341-345, 335: the first read fails; return; the deferred Close
ConnReadFails ==
    /\ UNCHANGED notHandler
    /\ connPc = "accepted"
    /\ connPc' = "closed"
    /\ outcome' = "ReadFailed"
    /\ UNCHANGED <<burst, bufOff, hashBytes, userID, sessStarted, streamVars,
                   authOk, admitID, admitIds, parsed>>
    /\ tlsConn' = ConnAfter(connPc', tlsConn)

\* lines 349-352 and 405-414: ReadBytes(32); a short read returns; else
\* isValidAuth calls authenticate, and on a failure resets the buffer to the
\* whole burst (b.Resize(0, n)), calls fallback and the handler returns
ConnAuth ==
    /\ UNCHANGED notHandler
    /\ connPc = "auth"
    /\ IF ~CanRead(Sha256Size)
       THEN /\ connPc' = "closed"
            /\ outcome' = "ShortFingerprint"
            /\ UNCHANGED <<bufOff, hashBytes, authOk, admitID, admitIds, parsed>>
       ELSE LET h == SubSeq(burst, bufOff + 1, bufOff + Sha256Size)
                r == Authenticate(h)
            IN /\ authOk' = IF r.ok THEN "ok" ELSE "failed"
               /\ admitIds' = IF srvMode = "v2board" THEN IdsOfHash(byHashFrom, h) ELSE {0}
               /\ parsed' = bufOff + Sha256Size
               /\ hashBytes' = h
               /\ IF IsValidAuth(r.ok)
                  THEN /\ bufOff' = bufOff + Sha256Size
                       /\ admitID' = r.userID
                       /\ connPc' = "padding"
                       /\ UNCHANGED outcome
                  ELSE /\ bufOff' = 0
                       /\ connPc' = "closed"
                       /\ outcome' = "FallbackClosed"
                       /\ UNCHANGED admitID
    /\ UNCHANGED <<burst, userID, sessStarted, streamVars>>
    /\ tlsConn' = ConnAfter(connPc', tlsConn)

\* lines 355-368: ReadBytes(2), the big-endian length, ReadBytes(length);
\* a failed read resets the buffer, calls fallback and the handler returns
ConnReadPadding ==
    /\ UNCHANGED notHandler
    /\ connPc = "padding"
    /\ IF ~CanRead(2)
       THEN /\ bufOff' = 0
            /\ connPc' = "closed"
            /\ outcome' = "FallbackClosed"
            /\ UNCHANGED parsed
       ELSE LET paddingLen == Uint16(SubSeq(burst, bufOff + 1, bufOff + 2))
            IN IF paddingLen > 0 /\ Len(burst) - (bufOff + 2) < paddingLen
               THEN /\ bufOff' = 0
                    /\ parsed' = bufOff + 2
                    /\ connPc' = "closed"
                    /\ outcome' = "FallbackClosed"
               ELSE /\ bufOff' = bufOff + 2 + paddingLen
                    /\ parsed' = bufOff + 2 + paddingLen
                    /\ connPc' = "resolve"
                    /\ UNCHANGED outcome
    /\ UNCHANGED <<burst, hashBytes, userID, sessStarted, streamVars,
                   authOk, admitID, admitIds>>
    /\ tlsConn' = ConnAfter(connPc', tlsConn)

\* lines 371-400: userID, _ := s.authenticate(passwordHashBytes); the
\* session is built with the stream callback and Run is called
ConnResolve ==
    /\ UNCHANGED notHandler
    /\ connPc = "resolve"
    /\ userID' = Authenticate(hashBytes).userID
    /\ sessStarted' = TRUE
    /\ connPc' = "session"
    /\ UNCHANGED <<burst, bufOff, hashBytes, streamVars, admitVars>>
    /\ tlsConn' = ConnAfter(connPc', tlsConn)

\* lines 400-402, 335: Run returns, the session and the connection are closed
ConnSessionEnd ==
    /\ UNCHANGED notHandler
    /\ connPc = "session"
    /\ connPc' = "closed"
    /\ outcome' = "Closed"
    /\ UNCHANGED <<burst, bufOff, hashBytes, userID, sessStarted, streamVars,
                   authOk, admitID, admitIds, parsed>>
    /\ tlsConn' = ConnAfter(connPc', tlsConn)

\* line 374: the session calls the callback for a stream the client opened
StreamOpen(s) ==
    /\ UNCHANGED notHandler
    /\ connPc = "session"
    /\ sPc[s] = "none"
    /\ sPc' = [sPc EXCEPT ![s] = "parse"]
    /\ UNCHANGED <<handlerVars, sDest, sCount, reportedAs, wroteBack, admitVars>>

\* line 390: the reserved name of UDP-over-TCP requests, as labels
Marker == <<"udp-over-tcp", "arpa">>

\* the destinations a client asks for, as the labels of destination.String():
\* a plain host, the UoT name, and a host that has the marker in front
Destinations ==
    {<<"example", "com">>,
     <<"sp", "v2", "udp-over-tcp", "arpa">>,
     <<"udp-over-tcp", "arpa", "example", "com">>}

\* strings.Contains
Contains(text, sub) ==
    \E i \in 1..(Len(text) - Len(sub) + 1) :
        SubSeq(text, i, i + Len(sub) - 1) = sub

\* a test for the marker at the end of the name only
IsUoT_Suffix(text) ==
    /\ Len(text) >= Len(Marker)
    /\ SubSeq(text, Len(text) - Len(Marker) + 1, Len(text)) = Marker

\* line 390: strings.Contains(destination.String(), "udp-over-tcp.arpa")
IsUoT(text) == Contains(text, Marker)

\* lines 390-394: the proxy function the callback calls for a destination
PathOf(text) ==
    IF text = <<>> THEN "none"
    ELSE IF IsUoT(text) THEN "uot" ELSE "tcp"

\* lines 380-390: ReadAddrPort fails and the stream is closed, or it gives a
\* destination
StreamParse(s, ok, dest) ==
    /\ UNCHANGED notHandler
    /\ sPc[s] = "parse"
    /\ IF ~ok
       THEN /\ sPc' = [sPc EXCEPT ![s] = "closed"]
            /\ UNCHANGED sDest
       ELSE /\ sPc' = [sPc EXCEPT ![s] = "relay"]
            /\ sDest' = [sDest EXCEPT ![s] = dest]
    /\ UNCHANGED <<handlerVars, sCount, reportedAs, wroteBack, admitVars>>

\* lines 389-394: proxyOutboundUoT or proxyOutboundTCP answers the client on
\* the stream and returns (upload, download)
StreamRelay(s, upload, download) ==
    /\ UNCHANGED notHandler
    /\ sPc[s] = "relay"
    /\ sCount' = [sCount EXCEPT ![s] = <<upload, download>>]
    /\ wroteBack' = TRUE
    /\ sPc' = [sPc EXCEPT ![s] = "record"]
    /\ UNCHANGED <<handlerVars, sDest, reportedAs, admitVars>>

\* TrafficManager.Record (src/v2board/auth.go, 341-366) run from its call to
\* its return
RecordWhole(id, upload, download) ==
    IF RecordIsNoop(upload, download)
    THEN UNCHANGED trafficVars
    ELSE LET known == id \in DOMAIN counters
             c == IF known THEN counters[id] ELSE Len(objs) + 1
             heap == IF known THEN objs
                     ELSE Append(objs, [id |-> id, upload |-> 0, download |-> 0])
             up == IF RecordAdds(upload) THEN upload ELSE 0
             down == IF RecordAdds(download) THEN download ELSE 0
         IN /\ counters' = IF known THEN counters ELSE (id :> c) @@ counters
            /\ objs' = [heap EXCEPT ![c].upload = @ + up, ![c].download = @ + down]
            /\ calledUp' = [calledUp EXCEPT ![id] = @ + Pos(upload)]
            /\ calledDown' = [calledDown EXCEPT ![id] = @ + Pos(download)]
            /\ duringUp' = [duringUp EXCEPT ![id] = @ + up]
            /\ duringDown' = [duringDown EXCEPT ![id] = @ + down]
            /\ UNCHANGED <<tmReaders, recVars, pushVars, flushHist>>

\* a recordTraffic that forwards whatever the id is
RecordTrafficForwards_AnyId(mode, id) == mode = "v2board"

\* myserver.go 64: s.v2boardTraffic != nil && userID > 0
RecordTrafficForwards(mode, id) == mode = "v2board" /\ id > 0

\* myserver.go 63-67: recordTraffic forwards to Record when the traffic
\* manager is set and the id is positive
RecordTraffic(id, upload, download) ==
    IF RecordTrafficForwards(srvMode, id)
    THEN RecordWhole(id, upload, download)
    ELSE UNCHANGED trafficVars

\* lines 396-397, 380: s.recordTraffic(userID, upload, download) with the
\* userID the callback captured; the deferred stream.Close
StreamRecordTraffic(s) ==
    /\ UNCHANGED <<authVars, srvVars, lookup, relayVars, procVars, held, lockVars>>
    /\ sPc[s] = "record"
    /\ RecordTraffic(userID, sCount[s][1], sCount[s][2])
    /\ reportedAs' = [reportedAs EXCEPT ![s] = userID]
    /\ sPc' = [sPc EXCEPT ![s] = "closed"]
    /\ UNCHANGED <<handlerVars, sDest, sCount, wroteBack, admitVars>>

Handler ==
    \/ \E bytes \in FirstBursts : ConnReadFirst(bytes)
    \/ ConnReadFails
    \/ ConnAuth
    \/ ConnReadPadding
    \/ ConnResolve
    \/ ConnSessionEnd

StreamCallback ==
    \/ \E s \in Streams : StreamOpen(s)
    \/ \E s \in Streams : StreamParse(s, FALSE, <<>>)
    \/ \E s \in Streams, dest \in Destinations : StreamParse(s, TRUE, dest)
    \/ \E s \in Streams, upload \in RelayCounts, download \in RelayCounts :
          StreamRelay(s, upload, download)
    \/ \E s \in Streams : StreamRecordTraffic(s)

\* the user lists the panel serves while a connection is handled: no user or
\* one user
ConnUserLists == {users \in UserLists : Len(users) <= 1}

RefreshDuringConn ==
    \/ AuthStart
    \/ AuthTick
    \/ \E users \in ConnUserLists : RefreshFetch(users, FALSE)
    \/ RefreshFails

NextConn ==
    \/ Handler
    \/ StreamCallback
    \/ RefreshDuringConn

SpecConn == Init /\ [][NextConn]_vars

\* lines 327-335: an internal fault anywhere in the handler unwinds it: the
\* deferred c.Close() runs, then the deferred recover logs the fault
ConnPanics ==
    /\ UNCHANGED notHandler
    /\ connPc # "closed"
    /\ connPc' = "closed"
    /\ outcome' = "Fault"
    /\ UNCHANGED <<burst, bufOff, hashBytes, userID, sessStarted, streamVars,
                   authOk, admitID, admitIds, parsed>>
    /\ tlsConn' = ConnAfter(connPc', tlsConn)

NextConnFault ==
    \/ NextConn
    \/ ConnPanics

\* the handler with internal faults
SpecConnFault == Init /\ [][NextConnFault]_vars

\* C21: every run of the connection handler ends with the TLS connection
\* closed, on every path: first-read failure, short fingerprint,
\* authentication failure, padding failure, internal fault and the normal
\* end of the session; the connection is open as long as the handler runs,
\* is never open after the handler has returned, and a closed connection
\* stays closed.
C21_HandlerClosesConnection ==
    /\ [](connPc = "closed" <=> tlsConn = "closed")
    /\ [](connPc = "closed" <=>
             outcome \in {"ReadFailed", "ShortFingerprint", "FallbackClosed",
                          "Fault", "Closed"})
    /\ [](outcome = "Closed" => sessStarted)
    /\ [][tlsConn = "closed" => tlsConn' = "closed"]_vars

\* C21 witness: an internal fault while the session ran, and the connection
\* is closed
C21_Witness ==
    /\ outcome = "Fault"
    /\ sessStarted
    /\ \E s \in Streams : sPc[s] = "relay"
    /\ tlsConn = "closed"

(***************************************************************************)
(* Claims on the connection handler                                        *)
(***************************************************************************)

\* the handler has read a 32-byte fingerprint that names nobody: in
\* V2board mode no user of the snapshot read at that moment has it, in
\* static mode it differs from the configured hash
Rejected ==
    /\ authOk # "none"
    /\ IF srvMode = "v2board" THEN admitIds = {} ELSE hashBytes # passwordSha256

\* C9: a connection whose 32-byte fingerprint fails authentication (any
\* fingerprint at all against an empty snapshot) is closed through fallback:
\* authenticate said no, the handler has returned, it consumed the 32 bytes of
\* the fingerprint and nothing behind them (the buffer is reset to the whole
\* burst), no session was started, no stream callback ran and nothing was
\* written back to the peer.
C9_RejectedGoesToFallback ==
    Rejected =>
        /\ authOk = "failed"
        /\ connPc = "closed"
        /\ outcome = "FallbackClosed"
        /\ parsed = Sha256Size
        /\ bufOff = 0
        /\ ~sessStarted
        /\ ~wroteBack
        /\ userID = 0
        /\ \A s \in Streams : sPc[s] = "none" /\ reportedAs[s] = -1

\* C9 witness: V2board mode, the snapshot is empty after a refresh that
\* fetched no user, and a whole first packet (fingerprint, padding length,
\* padding, session bytes) was rejected
C9_Witness ==
    /\ Rejected
    /\ srvMode = "v2board"
    /\ lastRefresh = "ok"
    /\ usersByHash = <<>>
    /\ burst \in WholePackets
    /\ Len(burst) > Sha256Size + 2
    /\ outcome = "FallbackClosed"

\* C10: in V2board mode, the report of every relayed stream is made under
\* the user id that the admission check of the connection resolved.  The
\* handler does not keep that id: line 371 calls authenticate a second time
\* and ignores its ok, so a refresh between lines 350 and 371 changes the id
\* (or makes it 0, and recordTraffic drops the report).
C10_ReportUnderAdmittedId ==
    srvMode = "v2board" =>
        \A s \in Streams : reportedAs[s] # -1 => reportedAs[s] = admitID

\* the lists of a panel that also has users with an id that is not
\* positive (0, and -2: -1 is "no report" in reportedAs)
AccountUserLists == {<<>>} \cup {<<User(id, "uuid-a")>> : id \in {1, 0, -2}}

RefreshDuringAccount ==
    \/ AuthStart
    \/ AuthTick
    \/ \E users \in AccountUserLists : RefreshFetch(users, FALSE)
    \/ RefreshFails

NextAccount ==
    \/ Handler
    \/ StreamCallback
    \/ RefreshDuringAccount

\* the handler and its streams beside such a panel
SpecAccount == Init /\ [][NextAccount]_vars

\* C25: recordTraffic forwards a report to the accountant only when a
\* traffic manager is configured and the user id is strictly positive: in
\* static mode no counter is ever made or changed, in V2board mode no
\* counter is ever made for an id that is not positive, and the report of a
\* stream whose connection resolved to such an id changes nothing of the
\* accountant, whatever counts the relay returned.
C25_OnlyPositiveIdsAccounted ==
    /\ [](srvMode = "static" => counters = <<>> /\ objs = <<>>)
    /\ [](\A id \in DOMAIN counters : id > 0)
    /\ [](\A s \in Streams :
             reportedAs[s] # -1 /\ (srvMode = "static" \/ reportedAs[s] <= 0) =>
                 counters = <<>> /\ objs = <<>>)
    /\ [][\A s \in Streams :
             sPc[s] = "record" /\ sPc'[s] = "closed"
             /\ (srvMode = "static" \/ userID <= 0) =>
                 UNCHANGED trafficVars]_vars

\* C25 witness: in V2board mode a connection of a user whose id is negative
\* was admitted, its stream relayed a byte each way and was reported, and
\* the accountant has no counter
C25_Witness ==
    /\ srvMode = "v2board"
    /\ authOk = "ok"
    /\ userID < 0
    /\ reportedAs["s1"] = userID
    /\ sCount["s1"] = <<1, 1>>
    /\ counters = <<>>

\* the first burst of an admitted connection ends before the 34 + L bytes
\* of fingerprint, length field and padding, L being the big-endian value
\* of bytes 33 and 34
PaddingCut ==
    /\ authOk = "ok"
    /\ \/ Len(burst) < Sha256Size + 2
       \/ Len(burst) < Sha256Size + 2
                         + burst[Sha256Size + 1] * 256 + burst[Sha256Size + 2]

\* C19: after a successful authentication, a failure to read the 2-byte
\* big-endian padding length L or the L padding bytes from the buffered
\* first burst (a burst that ends before 34 + L bytes) ends in
\* FallbackClosed: the buffer is reset, the session is never started, no
\* stream callback runs and nothing is recorded; and a session is started
\* only when the burst held all 34 + L bytes and the handler consumed them.
C19_PaddingFailureGoesToFallback ==
    /\ (PaddingCut /\ connPc # "padding") =>
           /\ connPc = "closed"
           /\ outcome = "FallbackClosed"
           /\ bufOff = 0
           /\ ~sessStarted
           /\ ~wroteBack
           /\ \A s \in Streams : sPc[s] = "none" /\ reportedAs[s] = -1
    /\ sessStarted =>
           /\ authOk = "ok"
           /\ ~PaddingCut
           /\ parsed = Sha256Size + 2
                         + burst[Sha256Size + 1] * 256 + burst[Sha256Size + 2]
           /\ bufOff = parsed

\* C19 witness: an admitted connection whose burst stops one byte into a
\* padding of two went to fallback
C19_Witness ==
    /\ PaddingCut
    /\ Len(burst) = Sha256Size + 3
    /\ Uint16(SubSeq(burst, Sha256Size + 1, Sha256Size + 2)) = 2
    /\ outcome = "FallbackClosed"
    /\ parsed = Sha256Size + 2

(***************************************************************************)
(* proxyOutboundTCP, proxyOutboundUoT, copyBidirectional                   *)
(* (src/cmd/server/outbound_tcp.go, 18-96)                                 *)
(***************************************************************************)

\* the most bytes one direction of a relay carries
MaxCopy == 1

\* the inbound conn handed to copyBidirectional is the session's stream or
\* the uot.Conn around it, never a *net.TCPConn
ClientIsTCP == FALSE

Other(d) == IF d = "up" THEN "down" ELSE "up"

\* a read sees data until the end is closed; a write needs the write side
Readable(st) == st \in {"open", "writeClosed"}
Writable(st) == st = "open"

\* lines 70, 82: upload is io.Copy(remote, client), download is
\* io.Copy(client, remote)
Src(d) == IF d = "up" THEN clientSt ELSE remoteSt
Dst(d) == IF d = "up" THEN remoteSt ELSE clientSt
CanCopy(d) == Readable(Src(d)) /\ Writable(Dst(d))

\* a loop that always closes its destination fully
CloseAfterCopy_AlwaysFull(isTCP) == "closed"

\* lines 73-77, 84-88: CloseWrite on a *net.TCPConn, Close on anything else
CloseAfterCopy(isTCP) == IF isTCP THEN "writeClosed" ELSE "closed"

\* an end after CloseWrite or Close
Shut(st, how) == IF st = "closed" THEN "closed" ELSE how

\* lines 71, 83: upload = n in the first goroutine, download = n in the second
ResultOf(d) == IF d = "up" THEN "upload" ELSE "download"

\* a caller that goes on after the first value from done
AllDone_First(n) == n >= 1

\* lines 93-94: two receives from done
AllDone(n) == n = 2

\* lines 60-61: proxyOutboundUoT returns what copyBidirectional returned
UoTResult(r) == <<r.upload, r.download>>

\* lines 32-33: proxyOutboundTCP returns what copyBidirectional returned
TCPResult(r) == <<r.upload, r.download>>

\* a relay that says nothing on the inbound stream when it cannot connect
HandshakeFailure_Silent(prev) == prev

\* lines 22, 48: N.ReportHandshakeFailure(conn, err)
HandshakeFailure(prev) == "failure"

\* the relay returns (upload, download) to the stream callback (part_000,
\* 389-394)
ReturnToCallback(s, counts) ==
    /\ rPc' = "returned"
    /\ sCount' = [sCount EXCEPT ![s] = counts]
    /\ sPc' = [sPc EXCEPT ![s] = "record"]

\* lines 19-25: DialContext; a failure is signalled on the inbound stream
\* and the call returns 0, 0
TcpDial(s, ok, isTCP) ==
    /\ UNCHANGED notRelay
    /\ sPc[s] = "relay"
    /\ PathOf(sDest[s]) = "tcp"
    /\ rPc = "none"
    /\ IF ok
       THEN /\ remoteSt' = "open"
            /\ remoteIsTCP' = isTCP
            /\ rPc' = "report"
            /\ UNCHANGED <<hsReport, wroteBack, sCount, sPc>>
       ELSE /\ hsReport' = HandshakeFailure(hsReport)
            /\ wroteBack' = TRUE
            /\ ReturnToCallback(s, <<0, 0>>)
            /\ UNCHANGED <<remoteSt, remoteIsTCP>>
    /\ UNCHANGED <<cpPc, copyN, ret, done, recvd, clientSt, firstDone, cutOff,
                   sDest, reportedAs>>

\* lines 39-43: uot.ReadRequest; a failure returns 0, 0 with nothing signalled
UotReadRequest(s, ok) ==
    /\ UNCHANGED notRelay
    /\ sPc[s] = "relay"
    /\ PathOf(sDest[s]) = "uot"
    /\ rPc = "none"
    /\ IF ok
       THEN /\ rPc' = "listen"
            /\ UNCHANGED <<sCount, sPc>>
       ELSE ReturnToCallback(s, <<0, 0>>)
    /\ UNCHANGED <<remoteIsTCP, cpPc, copyN, ret, done, recvd, clientSt, remoteSt,
                   hsReport, firstDone, cutOff, sDest, reportedAs, wroteBack>>

\* lines 45-51: net.ListenPacket; a failure is signalled on the inbound
\* stream and the call returns 0, 0
UotListenPacket(s, ok) ==
    /\ UNCHANGED notRelay
    /\ rPc = "listen"
    /\ IF ok
       THEN /\ remoteSt' = "open"
            /\ rPc' = "report"
            /\ UNCHANGED <<hsReport, wroteBack, sCount, sPc>>
       ELSE /\ hsReport' = HandshakeFailure(hsReport)
            /\ wroteBack' = TRUE
            /\ ReturnToCallback(s, <<0, 0>>)
            /\ UNCHANGED remoteSt
    /\ UNCHANGED <<remoteIsTCP, cpPc, copyN, ret, done, recvd, clientSt,
                   firstDone, cutOff, sDest, reportedAs>>

\* lines 27-29, 53-55: ReportHandshakeSuccess; when it fails the call returns
\* 0, 0 and the deferred c.Close() runs.  Lines 32, 60, 67-90: otherwise
\* copyBidirectional makes the channel and starts the two goroutines
ReportSuccess(s, ok) ==
    /\ UNCHANGED notRelay
    /\ rPc = "report"
    /\ IF ok
       THEN /\ hsReport' = "success"
            /\ wroteBack' = TRUE
            /\ cpPc' = [d \in Dirs |-> "copy"]
            /\ rPc' = "wait"
            /\ UNCHANGED <<remoteSt, sCount, sPc>>
       ELSE /\ remoteSt' = "closed"
            /\ ReturnToCallback(s, <<0, 0>>)
            /\ UNCHANGED <<hsReport, wroteBack, cpPc>>
    /\ UNCHANGED <<remoteIsTCP, copyN, ret, done, recvd, clientSt, firstDone,
                   cutOff, sDest, reportedAs>>

\* lines 70, 82: io.Copy writes one more byte to its destination
CopyByte(d) ==
    /\ UNCHANGED notRelay
    /\ cpPc[d] = "copy"
    /\ CanCopy(d)
    /\ copyN[d] < MaxCopy
    /\ copyN' = [copyN EXCEPT ![d] = @ + 1]
    /\ wroteBack' = (wroteBack \/ d = "down")
    /\ UNCHANGED <<rPc, remoteIsTCP, cpPc, ret, done, recvd, clientSt, remoteSt,
                   hsReport, firstDone, cutOff, sPc, sDest, sCount, reportedAs>>

\* lines 70-78, 82-89: io.Copy returns n (its source ended or failed), the
\* goroutine stores n in its result, shuts its destination and sends on done
CopyFinish(d) ==
    /\ UNCHANGED notRelay
    /\ cpPc[d] = "copy"
    /\ ret' = [ret EXCEPT ![ResultOf(d)] = copyN[d]]
    /\ IF d = "up"
       THEN /\ remoteSt' = Shut(remoteSt, CloseAfterCopy(remoteIsTCP))
            /\ UNCHANGED clientSt
       ELSE /\ clientSt' = Shut(clientSt, CloseAfterCopy(ClientIsTCP))
            /\ UNCHANGED remoteSt
    /\ done' = done + 1
    /\ cpPc' = [cpPc EXCEPT ![d] = "done"]
    /\ firstDone' = IF firstDone = "none" THEN d ELSE firstDone
    /\ cutOff' = IF cpPc[Other(d)] = "copy" /\ Readable(Dst(d)) /\ ~Readable(Dst(d)')
                 THEN cutOff \cup {Other(d)}
                 ELSE cutOff
    /\ UNCHANGED <<rPc, remoteIsTCP, copyN, recvd, hsReport, sPc, sDest, sCount,
                   reportedAs, wroteBack>>

\* lines 93-94: one receive from done
RelayRecv ==
    /\ UNCHANGED notRelay
    /\ rPc = "wait"
    /\ ~AllDone(recvd)
    /\ done > 0
    /\ done' = done - 1
    /\ recvd' = recvd + 1
    /\ UNCHANGED <<rPc, remoteIsTCP, cpPc, copyN, ret, clientSt, remoteSt, hsReport,
                   firstDone, cutOff, streamVars>>

\* lines 95, 32-33, 60-61, 25, 51: copyBidirectional returns its named
\* results, the proxy function returns them and its deferred c.Close() runs
RelayReturn(s) ==
    /\ UNCHANGED notRelay
    /\ sPc[s] = "relay"
    /\ rPc = "wait"
    /\ AllDone(recvd)
    /\ remoteSt' = "closed"
    /\ ReturnToCallback(s, IF PathOf(sDest[s]) = "uot" THEN UoTResult(ret) ELSE TCPResult(ret))
    /\ UNCHANGED <<remoteIsTCP, cpPc, copyN, ret, done, recvd, clientSt, hsReport,
                   firstDone, cutOff, sDest, reportedAs, wroteBack>>

Relay ==
    \/ \E s \in Streams, ok \in BOOLEAN, isTCP \in BOOLEAN : TcpDial(s, ok, isTCP)
    \/ \E s \in Streams, ok \in BOOLEAN : UotReadRequest(s, ok)
    \/ \E s \in Streams, ok \in BOOLEAN : UotListenPacket(s, ok)
    \/ \E s \in Streams, ok \in BOOLEAN : ReportSuccess(s, ok)
    \/ \E d \in Dirs : CopyByte(d)
    \/ \E d \in Dirs : CopyFinish(d)
    \/ RelayRecv
    \/ \E s \in Streams : RelayReturn(s)

\* the stream callback with the relay step by step
StreamCallbackRelay ==
    \/ \E s \in Streams : StreamOpen(s)
    \/ \E s \in Streams : StreamParse(s, FALSE, <<>>)
    \/ \E s \in Streams, dest \in Destinations : StreamParse(s, TRUE, dest)
    \/ Relay
    \/ \E s \in Streams : StreamRecordTraffic(s)

\* the connections that are relayed for: a whole first packet without
\* padding, carrying the digest of a user's UUID or of the static password
RelayBursts == {Packet(Sha256(x), 0) : x \in {"uuid-a", Password}}

\* the user list the panel serves meanwhile
RelayUserLists == {<<User(1, "uuid-a")>>}

HandlerBeforeRelay ==
    \/ \E bytes \in RelayBursts : ConnReadFirst(bytes)
    \/ ConnReadFails
    \/ ConnAuth
    \/ ConnReadPadding
    \/ ConnResolve
    \/ ConnSessionEnd

RefreshDuringRelay ==
    \/ AuthStart
    \/ AuthTick
    \/ \E users \in RelayUserLists : RefreshFetch(users, FALSE)
    \/ RefreshFails

NextRelay ==
    \/ HandlerBeforeRelay
    \/ StreamCallbackRelay
    \/ RefreshDuringRelay

SpecRelay == Init /\ [][NextRelay]_vars

(***************************************************************************)
(* Claims on the relay                                                     *)
(***************************************************************************)

\* the relay of stream s has returned to the callback
Relayed(s) == rPc = "returned" /\ sPc[s] \in {"record", "closed"}

\* C11: every UoT stream reports zero: whatever was copied in either
\* direction, proxyOutboundUoT returns (0, 0), and the report of the stream
\* adds nothing to any counter.  The code returns the counts of
\* copyBidirectional instead (lines 60-61), against its own comment (57-58).
C11_UoTReportsZero ==
    \A s \in Streams :
        PathOf(sDest[s]) = "uot" /\ Relayed(s) =>
            /\ sCount[s] = <<0, 0>>
            /\ \A id \in UserIDs : calledUp[id] = 0 /\ calledDown[id] = 0

\* copyBidirectional ran for stream s and the relay has returned
CopyReturned(s) == Relayed(s) /\ hsReport = "success"

DstIsTCP(d) == IF d = "up" THEN remoteIsTCP ELSE ClientIsTCP

\* C13 as stated: a finished loop half-closes its destination when that
\* supports half-close and closes it otherwise, and the end of one direction
\* never forces the other, still copying, direction to end.
C13_EndNeverForcesOther ==
    /\ \A d \in Dirs :
          cpPc[d] = "done" /\ rPc = "wait" =>
              Dst(d) = (IF DstIsTCP(d) THEN "writeClosed" ELSE "closed")
    /\ cutOff = {}

\* C13 amended: a finished loop calls CloseWrite on its destination when
\* that is a *net.TCPConn and Close otherwise.  After a CloseWrite the other
\* direction, if still copying, can go on copying; only a full Close takes
\* the source away from the other direction, and the inbound side, never a
\* *net.TCPConn, is always closed fully.  The loops finish in either order.
C13_HalfCloseKeepsOtherAlive ==
    /\ \A d \in Dirs :
          cpPc[d] = "done" /\ rPc = "wait" =>
              /\ Dst(d) = (IF DstIsTCP(d) THEN "writeClosed" ELSE "closed")
              /\ DstIsTCP(d) /\ cpPc[Other(d)] = "copy" => CanCopy(Other(d))
    /\ \A d \in cutOff : ~DstIsTCP(Other(d))
    /\ cpPc["down"] = "done" => clientSt = "closed"

\* C13 witness: client to remote finished first on a *net.TCPConn, which is
\* half-closed, and remote to client is still copying
C13_Witness ==
    /\ rPc = "wait"
    /\ firstDone = "up"
    /\ remoteIsTCP
    /\ remoteSt = "writeClosed"
    /\ cpPc["down"] = "copy"
    /\ CanCopy("down")

\* a copy loop was started or a byte was relayed
CopyStarted == \E d \in Dirs : cpPc[d] # "idle" \/ copyN[d] > 0

\* C14: on the TCP path a dial failure signals handshake failure on the
\* inbound stream, starts no copy loop and returns (0, 0); after a dial that
\* succeeded no copy loop runs and no byte is relayed before handshake
\* success was signalled; and when signalling success fails, no copy loop
\* starts, (0, 0) is returned and the outbound connection is closed.
C14_TcpHandshake ==
    \A s \in Streams :
        PathOf(sDest[s]) = "tcp" =>
            /\ CopyStarted => hsReport = "success" /\ remoteSt # "none"
            /\ Relayed(s) /\ remoteSt = "none" =>
                  hsReport = "failure" /\ ~CopyStarted /\ sCount[s] = <<0, 0>>
            /\ Relayed(s) /\ hsReport = "failure" => remoteSt = "none"
            /\ Relayed(s) /\ hsReport = "none" =>
                  remoteSt = "closed" /\ ~CopyStarted /\ sCount[s] = <<0, 0>>
            /\ Relayed(s) => remoteSt \in {"none", "closed"}

\* C14 witness: the dial failed and the relay returned
C14_Witness ==
    /\ PathOf(sDest["s1"]) = "tcp"
    /\ Relayed("s1")
    /\ remoteSt = "none"
    /\ hsReport = "failure"
    /\ sPc["s1"] = "record"

(***************************************************************************)
(* The accept loop and the fault boundaries (src/unnamed/part_000,         *)
(* 326-335, 374-380, 554-561)                                              *)
(***************************************************************************)

\* a callback without the deferred recover: the panic ends the process
CallbackAfterPanic_Unrecovered == "exited"

\* lines 375-379: the deferred function of the callback calls recover() and
\* logs; the goroutine ends and the process goes on
CallbackAfterPanic == "running"

\* lines 327-331: the deferred function of handleTcpConnection does the same
HandlerAfterPanic == "running"

\* lines 556-560: Accept returns a connection; go handleTcpConnection
Accept(c) ==
    /\ UNCHANGED notProc
    /\ procSt = "running"
    /\ taskSt[c] = "none"
    /\ taskSt' = [taskSt EXCEPT ![c] = "running"]
    /\ UNCHANGED <<procSt, cbSt, faults, acceptErr>>

\* lines 556-559: Accept returns an error; logrus.Fatalln ends the process
AcceptFails ==
    /\ UNCHANGED notProc
    /\ procSt = "running"
    /\ acceptErr' = TRUE
    /\ procSt' = "exited"
    /\ UNCHANGED <<taskSt, cbSt, faults>>

\* lines 400-402, 335: the handler returns; the deferred c.Close()
TaskEnds(c) ==
    /\ UNCHANGED notProc
    /\ procSt = "running"
    /\ taskSt[c] = "running"
    /\ taskSt' = [taskSt EXCEPT ![c] = "closed"]
    /\ UNCHANGED <<procSt, cbSt, faults, acceptErr>>

\* lines 326-335: a panic in the goroutine of the handler: the deferred
\* b.Release() and c.Close() run, then the deferred recover
TaskPanics(c) ==
    /\ UNCHANGED notProc
    /\ procSt = "running"
    /\ taskSt[c] = "running"
    /\ taskSt' = [taskSt EXCEPT ![c] = "closed"]
    /\ faults' = faults \cup {<<c, "task">>}
    /\ procSt' = HandlerAfterPanic
    /\ UNCHANGED <<cbSt, acceptErr>>

\* line 374: the session of a running handler runs the callback for a new
\* stream, concurrently with the callbacks of its other streams
CallbackStarts(c, s) ==
    /\ UNCHANGED notProc
    /\ procSt = "running"
    /\ taskSt[c] = "running"
    /\ cbSt[c][s] = "none"
    /\ cbSt' = [cbSt EXCEPT ![c][s] = "running"]
    /\ UNCHANGED <<procSt, taskSt, faults, acceptErr>>

\* lines 380-398: the callback returns; the deferred stream.Close()
CallbackEnds(c, s) ==
    /\ UNCHANGED notProc
    /\ procSt = "running"
    /\ cbSt[c][s] = "running"
    /\ cbSt' = [cbSt EXCEPT ![c][s] = "closed"]
    /\ UNCHANGED <<procSt, taskSt, faults, acceptErr>>

\* lines 375-380: a panic in the goroutine of the callback: the deferred
\* stream.Close() runs, then the deferred recover
CallbackPanics(c, s) ==
    /\ UNCHANGED notProc
    /\ procSt = "running"
    /\ cbSt[c][s] = "running"
    /\ cbSt' = [cbSt EXCEPT ![c][s] = "closed"]
    /\ faults' = faults \cup {<<c, s>>}
    /\ procSt' = CallbackAfterPanic
    /\ UNCHANGED <<taskSt, acceptErr>>

NextProc ==
    \/ \E c \in Conns : Accept(c)
    \/ AcceptFails
    \/ \E c \in Conns : TaskEnds(c)
    \/ \E c \in Conns : TaskPanics(c)
    \/ \E c \in Conns, s \in ConnStreams : CallbackStarts(c, s)
    \/ \E c \in Conns, s \in ConnStreams : CallbackEnds(c, s)
    \/ \E c \in Conns, s \in ConnStreams : CallbackPanics(c, s)

SpecProc == Init /\ [][NextProc]_vars

NextTraffic ==
    \/ \E p \in Callers : Record(p)
    \/ Push

InitV2board == Init /\ srvMode = "v2board"

SpecTraffic == InitV2board /\ [][NextTraffic]_vars

\* the text of a destination has the reserved marker somewhere in it
HasMarker(text) ==
    \E i \in 1..(Len(text) - 1) :
        text[i] = "udp-over-tcp" /\ text[i + 1] = "arpa"

\* ReadAddrPort failed for stream s and the callback returned
ParseFailed(s) == sPc[s] = "closed" /\ sDest[s] = <<>>

\* C20: a stream whose destination fails to parse is closed without any
\* outbound dial, any relay and any call to recordTraffic.  A stream that
\* parses is dispatched to exactly one of the two relay paths, UoT when the
\* text of the destination contains the reserved marker (wherever in the
\* text) and TCP otherwise: the first step of the relay is uot.ReadRequest
\* (nothing dialled, nothing signalled) on the one and the dial on the
\* other, a relay that returned is never entered again, and recordTraffic
\* is called exactly once for the stream, after the relay returned.
C20_StreamDispatch ==
    /\ [](\A s \in Streams :
             ParseFailed(s) =>
                 /\ rPc = "none"
                 /\ remoteSt = "none"
                 /\ hsReport = "none"
                 /\ ~CopyStarted
                 /\ sCount[s] = <<0, 0>>
                 /\ reportedAs[s] = -1
                 /\ \A id \in UserIDs : calledUp[id] = 0 /\ calledDown[id] = 0)
    /\ [](\A s \in Streams :
             /\ rPc # "none" => sDest[s] # <<>>
             /\ sPc[s] = "closed" /\ sDest[s] # <<>> =>
                    Relayed(s) /\ reportedAs[s] # -1)
    /\ [][\A s \in Streams :
             sPc[s] = "relay" /\ rPc = "none" /\ rPc' # "none" =>
                 IF HasMarker(sDest[s])
                 THEN /\ rPc' \in {"listen", "returned"}
                      /\ hsReport' = "none"
                      /\ remoteSt' = "none"
                 ELSE \/ rPc' = "report" /\ remoteSt' = "open"
                      \/ rPc' = "returned" /\ hsReport' = "failure"]_vars
    /\ [][rPc = "returned" => rPc' = "returned"]_vars
    /\ [][\A s \in Streams :
             reportedAs'[s] # reportedAs[s] =>
                 /\ reportedAs[s] = -1
                 /\ rPc = "returned"
                 /\ sPc[s] = "record"
                 /\ sPc'[s] = "closed"]_vars

\* C20 witness: a destination with the marker in front of another name
\* went down the UoT path (no failure was ever signalled, the remote socket
\* was opened by ListenPacket), the relay returned and the report was made
C20_Witness ==
    /\ sDest["s1"] = <<"udp-over-tcp", "arpa", "example", "com">>
    /\ sPc["s1"] = "closed"
    /\ hsReport = "success"
    /\ reportedAs["s1"] # -1

(***************************************************************************)
(* AuthManager.GetUserByID seen by its caller (src/v2board/auth.go,        *)
(* 110-121) : "u := entry.user; return &u"                                 *)
(***************************************************************************)

\* line 119: the struct assignment copies the field SpeedLimit, a pointer,
\* so the copy points to the cell the entry of the snapshot points to
CopyOfSpeedLimit(cell, i) == IF cell = <<>> THEN 0 ELSE i

\* lines 110-121: a caller takes the *User of an id that is present
GetUserByIDCopy(id) ==
    /\ UNCHANGED <<notCopy, amPc, beforeRefresh, lastRefresh, snapVars>>
    /\ srvMode = "v2board"
    /\ GetUserByID(usersById, id).found
    /\ LET u == GetUserByID(usersById, id).user
           i == EntryIndex(byIdFrom, id)
       IN  held' = [got |-> TRUE, ID |-> u.ID, UUID |-> u.UUID,
                    ptr |-> CopyOfSpeedLimit(limitCells[i], i), own |-> <<>>]

\* the caller assigns to a field of the record it got:
\* u.ID = 0, u.UUID = "changed", u.SpeedLimit = nil
CallerAssigns(field) ==
    /\ UNCHANGED <<notCopy, amPc, beforeRefresh, lastRefresh, snapVars>>
    /\ held.got
    /\ held' = CASE field = "ID" -> [held EXCEPT !.ID = 0]
                 [] field = "UUID" -> [held EXCEPT !.UUID = "changed"]
                 [] field = "SpeedLimit" -> [held EXCEPT !.ptr = 0,
                                                         !.own = <<>>]

\* the caller writes the speed limit of the record it got:
\* *u.SpeedLimit = 0
CallerWritesLimit ==
    /\ UNCHANGED <<notCopy, amPc, beforeRefresh, lastRefresh>>
    /\ held.got
    /\ held.ptr # 0
    /\ IF held.ptr > 0
       THEN /\ limitCells' = [limitCells EXCEPT ![held.ptr] = <<0>>]
            /\ UNCHANGED held
       ELSE /\ held' = [held EXCEPT !.own = <<0>>]
            /\ UNCHANGED limitCells
    /\ UNCHANGED <<usersByHash, usersById, byHashFrom, byIdFrom>>

Caller ==
    \/ \E id \in UserIDs : GetUserByIDCopy(id)
    \/ \E field \in {"ID", "UUID", "SpeedLimit"} : CallerAssigns(field)
    \/ CallerWritesLimit

NextCopy ==
    \/ RefreshDuringConn
    \/ Caller

SpecCopy == Init /\ [][NextCopy]_vars

\* what GetUserByID returns for an id now, the speed limit read through
\* the pointer
LiveUser(id) ==
    LET u == GetUserByID(usersById, id).user
    IN  [ID |-> u.ID, UUID |-> u.UUID,
         SpeedLimit |-> limitCells[EntryIndex(byIdFrom, id)]]

\* what the panel gave for the user the entry of an id was built from
FetchedUser(id) ==
    LET u == byIdFrom[EntryIndex(byIdFrom, id)]
    IN  [ID |-> u.ID, UUID |-> u.UUID, SpeedLimit |-> PanelSpeedLimit(u)]

(***************************************************************************)
(* C18: GetUserByID returns a defensive copy: whatever a caller writes     *)
(* through the record it got, speed limit included, a later GetUserByID    *)
(* and a later CheckAuth return from the live snapshot what the refresh    *)
(* published: for every id present, the record with the fields the panel   *)
(* gave, and for every digest a user the panel gave with that secret.      *)
(***************************************************************************)
C18_DefensiveCopy ==
    /\ \A id \in DOMAIN usersById : LiveUser(id) = FetchedUser(id)
    /\ \A h \in Hashes :
           CheckAuth(usersByHash, h).ok =>
               CheckAuth(usersByHash, h).userID \in IdsOfHash(byHashFrom, h)

(***************************************************************************)
(* The locking of AuthManager and TrafficManager (src/v2board/auth.go):    *)
(* refresh 60-87, CheckAuth 92-108, GetUserByID 110-121, Record 341-366,   *)
(* push 382-421.  A sync.RWMutex lets no reader in while a writer holds it *)
(* or is blocked in Lock().                                                *)
(***************************************************************************)

\* sync.RWMutex: RLock returns, Lock returns
CanRLock(mu) == mu.w = "none" /\ mu.wait = {}
CanLock(mu) == mu.w = "none" /\ mu.r = {}

RLock(mu, g) == [mu EXCEPT !.r = @ \cup {g}]
RUnlock(mu, g) == [mu EXCEPT !.r = @ \ {g}]
\* Lock is called and blocks; Lock returns; Unlock
LockCalled(mu, g) == [mu EXCEPT !.wait = @ \cup {g}]
Lock(mu, g) == [mu EXCEPT !.w = g, !.wait = @ \ {g}]
Unlock(mu, g) == [mu EXCEPT !.w = "none"]

\* a push() that keeps its read lock while it calls the sink
PushRUnlock_AfterSink(mu) == mu

\* line 400: m.mu.RUnlock() after the sampling loop, before PushTraffic
PushRUnlock(mu) == RUnlock(mu, "push")

\* lines 46, 51-55 and 61: Start calls refresh, which calls GetUserList
LockRefreshBegins ==
    /\ UNCHANGED notLocks
    /\ goPc["refresh"] = "idle"
    /\ goPc' = [goPc EXCEPT !["refresh"] = "fetch"]
    /\ UNCHANGED <<authMu, trafficMu, counterMade>>

\* lines 61-80: GetUserList returns: an error ends refresh; else the new
\* maps are built and m.mu.Lock() is called
LockFetchReturns(ok) ==
    /\ UNCHANGED notLocks
    /\ goPc["refresh"] = "fetch"
    /\ IF ok
       THEN /\ goPc' = [goPc EXCEPT !["refresh"] = "lock"]
            /\ authMu' = LockCalled(authMu, "refresh")
       ELSE /\ goPc' = [goPc EXCEPT !["refresh"] = "idle"]
            /\ UNCHANGED authMu
    /\ UNCHANGED <<trafficMu, counterMade>>

\* line 80: Lock returns
LockRefreshLocks ==
    /\ UNCHANGED notLocks
    /\ goPc["refresh"] = "lock"
    /\ CanLock(authMu)
    /\ authMu' = Lock(authMu, "refresh")
    /\ goPc' = [goPc EXCEPT !["refresh"] = "swap"]
    /\ UNCHANGED <<trafficMu, counterMade>>

\* lines 81-83: the two maps are replaced; Unlock
LockRefreshUnlocks ==
    /\ UNCHANGED notLocks
    /\ goPc["refresh"] = "swap"
    /\ authMu' = Unlock(authMu, "refresh")
    /\ goPc' = [goPc EXCEPT !["refresh"] = "idle"]
    /\ UNCHANGED <<trafficMu, counterMade>>

\* lines 92-100, 111-112: CheckAuth or GetUserByID is called and calls RLock
LockLookupCalled(g) ==
    /\ UNCHANGED notLocks
    /\ goPc[g] = "idle"
    /\ goPc' = [goPc EXCEPT ![g] = "rlock"]
    /\ UNCHANGED <<authMu, trafficMu, counterMade>>

\* lines 100, 112: RLock returns
LockLookupRLocks(g) ==
    /\ UNCHANGED notLocks
    /\ goPc[g] = "rlock"
    /\ CanRLock(authMu)
    /\ authMu' = RLock(authMu, g)
    /\ goPc' = [goPc EXCEPT ![g] = "read"]
    /\ UNCHANGED <<trafficMu, counterMade>>

\* lines 101-108, 113-121: the map is read; RUnlock; return
LockLookupReturns(g) ==
    /\ UNCHANGED notLocks
    /\ goPc[g] = "read"
    /\ authMu' = RUnlock(authMu, g)
    /\ goPc' = [goPc EXCEPT ![g] = "idle"]
    /\ UNCHANGED <<trafficMu, counterMade>>

\* lines 341-346: Record is called with something to add and calls RLock
LockRecordCalled(g) ==
    /\ UNCHANGED notLocks
    /\ goPc[g] = "idle"
    /\ goPc' = [goPc EXCEPT ![g] = "rlock"]
    /\ UNCHANGED <<authMu, trafficMu, counterMade>>

\* line 346: RLock returns
LockRecordRLocks(g) ==
    /\ UNCHANGED notLocks
    /\ goPc[g] = "rlock"
    /\ CanRLock(trafficMu)
    /\ trafficMu' = RLock(trafficMu, g)
    /\ goPc' = [goPc EXCEPT ![g] = "read"]
    /\ UNCHANGED <<authMu, counterMade>>

\* lines 347-352: the map is read; RUnlock; if the counter is absent Lock
\* is called; lines 360-366: else the two Adds, with no lock, and return
LockRecordRUnlocks(g) ==
    /\ UNCHANGED notLocks
    /\ goPc[g] = "read"
    /\ IF g \in counterMade
       THEN /\ trafficMu' = RUnlock(trafficMu, g)
            /\ goPc' = [goPc EXCEPT ![g] = "idle"]
       ELSE /\ trafficMu' = LockCalled(RUnlock(trafficMu, g), g)
            /\ goPc' = [goPc EXCEPT ![g] = "lock"]
    /\ UNCHANGED <<authMu, counterMade>>

\* line 352: Lock returns
LockRecordLocks(g) ==
    /\ UNCHANGED notLocks
    /\ goPc[g] = "lock"
    /\ CanLock(trafficMu)
    /\ trafficMu' = Lock(trafficMu, g)
    /\ goPc' = [goPc EXCEPT ![g] = "create"]
    /\ UNCHANGED <<authMu, counterMade>>

\* lines 353-366: the counter is made unless it is there now; Unlock; the
\* two Adds, with no lock; return
LockRecordUnlocks(g) ==
    /\ UNCHANGED notLocks
    /\ goPc[g] = "create"
    /\ counterMade' = counterMade \cup {g}
    /\ trafficMu' = Unlock(trafficMu, g)
    /\ goPc' = [goPc EXCEPT ![g] = "idle"]
    /\ UNCHANGED authMu

\* lines 376-388: a tick; push() calls RLock
LockPushBegins ==
    /\ UNCHANGED notLocks
    /\ goPc["push"] = "idle"
    /\ goPc' = [goPc EXCEPT !["push"] = "rlock"]
    /\ UNCHANGED <<authMu, trafficMu, counterMade>>

\* lines 388, 409: RLock returns, before the sampling loop or the restore
\* loop
LockPushRLocks ==
    /\ UNCHANGED notLocks
    /\ goPc["push"] \in {"rlock", "rlockAgain"}
    /\ CanRLock(trafficMu)
    /\ trafficMu' = RLock(trafficMu, "push")
    /\ goPc' = [goPc EXCEPT !["push"] =
                   IF goPc["push"] = "rlock" THEN "loop" ELSE "restore"]
    /\ UNCHANGED <<authMu, counterMade>>

\* lines 389-406: the sampling loop ends; RUnlock; return when records is
\* empty (it is when the map is), else PushTraffic is called
LockPushLoopEnds(empty) ==
    /\ UNCHANGED notLocks
    /\ goPc["push"] = "loop"
    /\ counterMade # {} \/ empty
    /\ trafficMu' = PushRUnlock(trafficMu)
    /\ goPc' = [goPc EXCEPT !["push"] = IF empty THEN "idle" ELSE "sink"]
    /\ UNCHANGED <<authMu, counterMade>>

\* lines 406-409, 420: PushTraffic returns: nil ends push(); an error goes
\* on to the restore loop, which calls RLock
LockSinkReturns(ok) ==
    /\ UNCHANGED notLocks
    /\ goPc["push"] = "sink"
    /\ goPc' = [goPc EXCEPT !["push"] = IF ok THEN "idle" ELSE "rlockAgain"]
    /\ trafficMu' = IF ok THEN RUnlock(trafficMu, "push") ELSE trafficMu
    /\ UNCHANGED <<authMu, counterMade>>

\* lines 410-417: the restore loop; RUnlock; return
LockPushRestored ==
    /\ UNCHANGED notLocks
    /\ goPc["push"] = "restore"
    /\ trafficMu' = RUnlock(trafficMu, "push")
    /\ goPc' = [goPc EXCEPT !["push"] = "idle"]
    /\ UNCHANGED <<authMu, counterMade>>

\* the steps that wait for the panel: nothing says they are ever taken
PanelReturns ==
    \/ \E ok \in BOOLEAN : LockFetchReturns(ok)
    \/ \E ok \in BOOLEAN : LockSinkReturns(ok)

\* the steps that begin a call or a cycle
LockCalls ==
    \/ LockRefreshBegins
    \/ LockPushBegins
    \/ \E g \in LookupCallers : LockLookupCalled(g)
    \/ \E g \in RecordCallers : LockRecordCalled(g)

\* what a goroutine does by itself once it was called
LockRefreshSteps == LockRefreshLocks \/ LockRefreshUnlocks
LockLookupSteps(g) == LockLookupRLocks(g) \/ LockLookupReturns(g)
LockRecordSteps(g) ==
    \/ LockRecordRLocks(g)
    \/ LockRecordRUnlocks(g)
    \/ LockRecordLocks(g)
    \/ LockRecordUnlocks(g)
LockPushSteps ==
    \/ LockPushRLocks
    \/ \E empty \in BOOLEAN : LockPushLoopEnds(empty)
    \/ LockPushRestored

NextLocks ==
    \/ LockCalls
    \/ PanelReturns
    \/ LockRefreshSteps
    \/ \E g \in LookupCallers : LockLookupSteps(g)
    \/ \E g \in RecordCallers : LockRecordSteps(g)
    \/ LockPushSteps

\* a goroutine that can run does run; a reader of AuthManager.mu that
\* waits while refresh after refresh takes the write lock gets in between
\* two of them (Unlock wakes the readers that wait); the panel need never
\* answer
LocksFairness ==
    /\ WF_vars(LockRefreshSteps)
    /\ \A g \in LookupCallers : SF_vars(LockLookupSteps(g))
    /\ \A g \in RecordCallers : WF_vars(LockRecordSteps(g))
    /\ WF_vars(LockPushSteps)

SpecLocks == InitV2board /\ [][NextLocks]_vars /\ LocksFairness

\* C24: neither background task holds a lock across its external call:
\* while GetUserList is in flight refresh() holds nothing of AuthManager.mu
\* (the write lock is held for the swap of the two maps only), and while
\* PushTraffic is in flight push() holds nothing of TrafficManager.mu.  So,
\* with the panel never answering at all, every CheckAuth, GetUserByID and
\* Record call that was made returns (a Record that has to create the
\* counter included), and whoever holds a lock is at a step that gives it
\* back without waiting for anything: no interleaving deadlocks.
C24_NoLockAcrossExternalCall ==
    /\ [](goPc["refresh"] = "fetch" =>
             /\ authMu.w # "refresh"
             /\ "refresh" \notin authMu.r \cup authMu.wait)
    /\ [](authMu.w = "refresh" <=> goPc["refresh"] = "swap")
    /\ [](goPc["push"] = "sink" =>
             /\ trafficMu.w # "push"
             /\ "push" \notin trafficMu.r \cup trafficMu.wait)
    /\ [](\A g \in Goroutines :
             g = authMu.w \/ g = trafficMu.w \/ g \in authMu.r \cup trafficMu.r
                 => goPc[g] \in {"swap", "create", "read", "loop", "restore"})
    /\ \A g \in LookupCallers \cup RecordCallers :
           (goPc[g] # "idle") ~> (goPc[g] = "idle")

\* C24 witness: GetUserList and PushTraffic are both in flight, a Record
\* call for an id without a counter holds the write lock of the counter
\* map, and CheckAuth and GetUserByID hold read locks of the snapshot
C24_Witness ==
    /\ goPc["refresh"] = "fetch"
    /\ goPc["push"] = "sink"
    /\ \E g \in RecordCallers : goPc[g] = "create" /\ trafficMu.w = g
    /\ authMu.r = LookupCallers

Next ==
    \/ NextTraffic \/ NextAuth \/ NextConnFault \/ NextRelay \/ NextProc
    \/ NextCopy \/ NextLocks \/ NextAccount

Spec == Init /\ [][Next]_vars
====
